---- MODULE Spec2Model ----
(***************************************************************************)
(* A model of the download pipeline of radio-station's streamrip fork:     *)
(* the progress event bus (SSEManager), the progress callbacks, the        *)
(* idempotency database, the pending-item resolution, the semaphore-gated  *)
(* Track.download with its single retry, Playlist.download, and the        *)
(* search with fallback of PendingLastfmPlaylist.resolve.                  *)
(*                                                                         *)
(* Two SSEManager instances exist in the program.  media/track.py and      *)
(* media/playlist.py import sse_manager from streamrip/sse_server.py,      *)
(* while progress.py imports it from admin_service/sse_manager.py.  The    *)
(* two classes have the same code; every bus variable below is indexed by  *)
(* the instance.                                                           *)
(***************************************************************************)
EXTENDS Integers, Sequences, FiniteSets, TLC

VARIABLES
    clients,        \* [bus -> set of observer ids]: keys of SSEManager.clients
    client_queue,   \* [observer -> Seq(frame)]: the asyncio.Queue of each observer
    playlists,      \* [bus -> dict]: SSEManager.playlists
    tracks,         \* [bus -> dict]: SSEManager.tracks
    search_status,  \* [bus -> dict]: SSEManager.search_status
    sent,           \* [bus -> Seq(frame)]: history of the frames handed to broadcast_event
    opc,            \* [observer -> position of its add_client generator]
    iter_pos,       \* [observer -> items the current dict iterator has yielded]
    iter_used,      \* [observer -> dict size recorded when the iterator was created]
    received,       \* [observer -> Seq of the data frames the generator has yielded]
    last_yield,     \* [observer -> "data" or "keepalive": what the live loop yielded last]
    joined,         \* [observer -> Len(sent) when it subscribed]
    retained_at_connect, \* [observer -> set of <<kind, id>> retained when it subscribed]
    run_pc,         \* position of the coroutine that drives the run (Playlist.rip)
    batch_lo,       \* i of "for i in range(0, len(self.tracks), batch_size)"
    batch_len,      \* batch_size of Playlist.download, scaled down for the run
    cancelled,      \* the top-level task of the run has been cancelled
    item,           \* [task -> the pending item it resolves: kind, id, playlist_id]
    pc,             \* [task -> position of its resolve-then-rip coroutine]
    result,         \* [task -> how its coroutine ended]
    db_downloads,   \* rows of the downloads table: the completed ids
    db_failed,      \* rows of the failed_downloads table
    max_connections,\* the limit the global download semaphore was created with
    permits,        \* the semaphore's current value
    waiters,        \* the tasks waiting in the semaphore's acquire(), in order
    scheduled,      \* the update_track coroutines created with loop.create_task, in order
    progress_bars,  \* config.session.cli.progress_bars
    progress_sse,   \* SSE_AVAILABLE of progress.py: admin_service.sse_manager was importable
    active_progress,\* [task -> active_tracks[...]["progress"] of its progress handle]
    sem_exit,       \* [task -> how it left the async with block of Track.download]
    meta_calls,     \* [task -> calls of client.get_metadata it has made]
    dl_calls,       \* [task -> calls of client.get_downloadable it has made]
    xfer_calls,     \* [task -> calls of downloadable.download it has made]
    xfer_raised,    \* [task -> calls of downloadable.download that raised]
    search_pc,      \* position of PendingLastfmPlaylist.resolve
    fallback_client,\* PendingLastfmPlaylist.fallback_client: None or a client
    query_no,       \* the pair of titles_artists the for loop of resolve is at
    found_count,    \* found_count of resolve
    failed_count,   \* failed_count of resolve
    results,        \* results of resolve: the (track_id, client) pairs appended so far
    searches,       \* history of the client.search calls: query, client, outcome
    meta_ids,       \* PlaylistMetadata.ids() of the playlist PendingPlaylist resolves
    resolved,       \* <<the Playlist a resolve has returned>>, or <<>>
    downloads_rows, \* the rows of the downloads table in rowid order, one field: id
    add_calls,      \* history of the Database.set_downloaded calls: the ids
    add_raised,     \* the exception the last set_downloaded or set_failed call left with, or None
    failed_rows,    \* the rows of failed_downloads in rowid order: source, media_type, id
    set_failed_calls, \* history of the Database.set_failed calls: source, media_type, id
    active_downloads,\* the keys of the dict active_downloads of sse_server.py
    download_task,  \* [task_id -> state of the asyncio.Task of execute_download]
    response,       \* the /api endpoint called last, its task_id and the body returned
    covers,         \* the rows of the covers table: track_id, artist, title, cover_url
    cover_cache,    \* the rows of the cover_cache table: lookup_key, track_id, cover_url
    cover_lookups   \* history of the lookup_cover_url calls: arguments, searched, result

bus_vars == <<clients, client_queue, playlists, tracks, search_status, sent>>
obs_vars == <<opc, iter_pos, iter_used, received, last_yield, joined, retained_at_connect>>
db_vars == <<db_downloads, db_failed>>
sem_vars == <<max_connections, permits, waiters, sem_exit>>
search_vars == <<search_pc, fallback_client, query_no, found_count, failed_count,
                 results, searches, meta_ids, resolved>>
table_vars == <<downloads_rows, add_calls, add_raised, failed_rows, set_failed_calls>>
registry_vars == <<active_downloads, download_task, response>>
cover_vars == <<covers, cover_cache, cover_lookups>>
\* What the steps of a download read or leave alone.
cfg_vars == <<item, batch_len, progress_bars, progress_sse, search_vars, table_vars,
              registry_vars, cover_vars>>
call_vars == <<meta_calls, dl_calls, xfer_calls, xfer_raised>>
run_vars == <<run_pc, batch_lo, cancelled, pc, result, db_vars, sem_vars, cfg_vars,
              scheduled, active_progress, call_vars>>
vars == <<bus_vars, obs_vars, run_vars>>

None == "None"

\* The two module-level SSEManager instances.
Buses == {"sse_server", "admin"}

\* Ids of the observers that may open GET /events.
ObserverIds == {"o1", "o2"}

\* asyncio.Queue(maxsize=50) in the program; the model runs the same code with
\* a smaller capacity.
QueueMaxSize == 2

\* Publishing stops once more frames than a queue holds have been handed to
\* broadcast_event, which is what it takes to overflow an idle observer.
MaxSent == QueueMaxSize + 1

-----------------------------------------------------------------------------
(* Python dicts keep insertion order: a dict is its key order and its map. *)

EmptyDict == [order |-> <<>>, map |-> <<>>]

DictHas(d, k) == k \in DOMAIN d.map

DictLen(d) == Len(d.order)

\* d[k] = v
DictSet(d, k, v) ==
    IF DictHas(d, k)
    THEN [d EXCEPT !.map[k] = v]
    ELSE [order |-> Append(d.order, k), map |-> d.map @@ (k :> v)]

-----------------------------------------------------------------------------
(* The event dataclasses.  title, artist, playlist_name, current_query and *)
(* timestamp carry no control flow and are left out.                       *)

TrackEvent(track_id, status, progress, error_message, playlist_id) ==
    [track_id |-> track_id, status |-> status, progress |-> progress,
     error_message |-> error_message, playlist_id |-> playlist_id]

PlaylistEvent(playlist_id, status, total_tracks) ==
    [playlist_id |-> playlist_id, status |-> status, total_tracks |-> total_tracks,
     found_tracks |-> 0, failed_tracks |-> 0, completed_tracks |-> 0]

SearchEvent(playlist_id, total, found, failed) ==
    [playlist_id |-> playlist_id, total |-> total, found |-> found, failed |-> failed]

\* What broadcast_event puts in a queue: (event_type, data).
Frame(event_type, data) == [event_type |-> event_type, data |-> data]

\* The entity a data frame is about: <<kind, id>>.
EntityOf(frame) ==
    IF frame.event_type = "track_update" THEN <<"track", frame.data.track_id>>
    ELSE IF frame.event_type = "playlist_update" THEN <<"playlist", frame.data.playlist_id>>
    ELSE <<"search", frame.data.playlist_id>>

-----------------------------------------------------------------------------
(* SSEManager.  An operation maps the state S of one manager,              *)
(*   [clients, queue, playlists, tracks, search_status, sent],             *)
(* to its state after the call; none of them suspends (broadcast_event     *)
(* only calls put_nowait), so each runs within one step of the loop.       *)

BusState(b) ==
    [clients |-> clients[b], queue |-> client_queue, playlists |-> playlists[b],
     tracks |-> tracks[b], search_status |-> search_status[b], sent |-> sent[b]]

\* put_nowait raises QueueFull when qsize() >= maxsize.
QueueFull(q) == Len(q) >= QueueMaxSize

\* broadcast_event that stops at the first full queue.
broadcast_event_stops(S, frame) ==
    LET logged == [S EXCEPT !.sent = Append(@, frame)]
        disconnected == {o \in S.clients : QueueFull(S.queue[o])}
    IN  IF disconnected # {}
        THEN [logged EXCEPT !.clients = S.clients \ disconnected]
        ELSE [logged EXCEPT !.queue = [o \in DOMAIN S.queue |->
                IF o \in S.clients THEN Append(S.queue[o], frame) ELSE S.queue[o]]]

\* broadcast_event that puts the frame at the head of the queue.
broadcast_event_lifo(S, frame) ==
    LET logged == [S EXCEPT !.sent = Append(@, frame)]
        disconnected == {o \in S.clients : QueueFull(S.queue[o])}
    IN  [logged EXCEPT
            !.queue = [o \in DOMAIN S.queue |->
                IF o \in S.clients \ disconnected
                THEN <<frame>> \o S.queue[o] ELSE S.queue[o]],
            !.clients = S.clients \ disconnected]

\* SSEManager.broadcast_event
broadcast_event(S, frame) ==
    LET logged == [S EXCEPT !.sent = Append(@, frame)]
        disconnected == {o \in S.clients : QueueFull(S.queue[o])}
    IN  IF S.clients = {}
        THEN logged
        ELSE [logged EXCEPT
                !.queue = [o \in DOMAIN S.queue |->
                    IF o \in S.clients \ disconnected
                    THEN Append(S.queue[o], frame) ELSE S.queue[o]],
                !.clients = S.clients \ disconnected]

\* SSEManager.update_playlist
update_playlist(S, playlist_event) ==
    broadcast_event(
        [S EXCEPT !.playlists = DictSet(@, playlist_event.playlist_id, playlist_event)],
        Frame("playlist_update", playlist_event))

\* SSEManager.update_search
update_search(S, search_event) ==
    broadcast_event(
        [S EXCEPT !.search_status = DictSet(@, search_event.playlist_id, search_event)],
        Frame("search_update", search_event))

\* Statistics whose found counter leaves out the tracks that have completed.
playlist_stats_found_pending(playlist, track_dict) ==
    LET playlist_tracks == {k \in DOMAIN track_dict.map :
                                track_dict.map[k].playlist_id = playlist.playlist_id}
        count(statuses) == Cardinality({k \in playlist_tracks :
                                track_dict.map[k].status \in statuses})
        found == count({"found", "downloading"})
        completed == count({"completed"})
        failed == count({"failed"})
    IN  IF playlist_tracks # {}
           /\ (playlist.found_tracks # found
               \/ playlist.completed_tracks # completed
               \/ playlist.failed_tracks # failed)
        THEN [playlist EXCEPT
                !.found_tracks = found,
                !.completed_tracks = completed,
                !.failed_tracks = failed,
                !.status = IF completed + failed = playlist.total_tracks
                              /\ playlist.total_tracks > 0
                           THEN "completed"
                           ELSE IF completed > 0 \/ found > 0
                           THEN "downloading"
                           ELSE @]
        ELSE playlist

\* The counters and status _update_playlist_stats computes for one playlist.
playlist_stats(playlist, track_dict) ==
    LET playlist_tracks == {k \in DOMAIN track_dict.map :
                                track_dict.map[k].playlist_id = playlist.playlist_id}
        count(statuses) == Cardinality({k \in playlist_tracks :
                                track_dict.map[k].status \in statuses})
        found == count({"found", "downloading", "completed"})
        completed == count({"completed"})
        failed == count({"failed"})
    IN  IF playlist_tracks # {}
           /\ (playlist.found_tracks # found
               \/ playlist.completed_tracks # completed
               \/ playlist.failed_tracks # failed)
        THEN [playlist EXCEPT
                !.found_tracks = found,
                !.completed_tracks = completed,
                !.failed_tracks = failed,
                !.status = IF completed + failed = playlist.total_tracks
                              /\ playlist.total_tracks > 0
                           THEN "completed"
                           ELSE IF completed > 0 \/ found > 0
                           THEN "downloading"
                           ELSE @]
        ELSE playlist

RECURSIVE stats_loop_always(_, _)
\* A loop that broadcasts every playlist, changed or not.
stats_loop_always(S, i) ==
    IF i > DictLen(S.playlists)
    THEN S
    ELSE LET playlist_id == S.playlists.order[i]
             updated == playlist_stats(S.playlists.map[playlist_id], S.tracks)
         IN  stats_loop_always(
                broadcast_event([S EXCEPT !.playlists.map[playlist_id] = updated],
                                Frame("playlist_update", updated)),
                i + 1)

RECURSIVE stats_loop(_, _)
\* The for loop of _update_playlist_stats from the i-th playlist on.
stats_loop(S, i) ==
    IF i > DictLen(S.playlists)
    THEN S
    ELSE LET playlist_id == S.playlists.order[i]
             playlist == S.playlists.map[playlist_id]
             updated == playlist_stats(playlist, S.tracks)
         IN  IF updated # playlist
             THEN stats_loop(
                    broadcast_event([S EXCEPT !.playlists.map[playlist_id] = updated],
                                    Frame("playlist_update", updated)),
                    i + 1)
             ELSE stats_loop(S, i + 1)

\* SSEManager._update_playlist_stats
update_playlist_stats(S) == stats_loop(S, 1)

\* update_track that returns before storing when nobody listens.
update_track_skips_store(S, track_event) ==
    IF S.clients = {}
    THEN [S EXCEPT !.sent = Append(@, Frame("track_update", track_event))]
    ELSE update_playlist_stats(
            broadcast_event(
                [S EXCEPT !.tracks = DictSet(@, track_event.track_id, track_event)],
                Frame("track_update", track_event)))

\* update_track that leaves the statistics to a later call.
update_track_without_stats(S, track_event) ==
    broadcast_event(
        [S EXCEPT !.tracks = DictSet(@, track_event.track_id, track_event)],
        Frame("track_update", track_event))

\* SSEManager.update_track
update_track(S, track_event) ==
    update_playlist_stats(
        broadcast_event(
            [S EXCEPT !.tracks = DictSet(@, track_event.track_id, track_event)],
            Frame("track_update", track_event)))

-----------------------------------------------------------------------------
(* SSEManager.add_client: the async generator behind GET /events.  Each    *)
(* yield and the await on the queue suspend it; a step below runs it from  *)
(* one suspension to the next.                                             *)

\* The manager whose /events endpoint the observers of the model open.
BusOf(o) == "sse_server"

ConnectionFrame == Frame("connection", [status |-> "connected"])

\* An element of received: the frame and the statement that yielded it.
Yielded(src, frame) == [src |-> src, frame |-> frame]

RetainedEntities(b) ==
    {<<"playlist", k>> : k \in DOMAIN playlists[b].map}
    \cup {<<"track", k>> : k \in DOMAIN tracks[b].map}
    \cup {<<"search", k>> : k \in DOMAIN search_status[b].map}

\* A stream that ends without the finally clause.
CloseLeavesRegistered(o) ==
    /\ opc' = [opc EXCEPT ![o] = "closed"]
    /\ clients' = clients
    /\ client_queue' = [client_queue EXCEPT ![o] = <<>>]
    /\ received' = [received EXCEPT ![o] = <<>>]
    /\ last_yield' = [last_yield EXCEPT ![o] = "data"]
    /\ iter_pos' = [iter_pos EXCEPT ![o] = 0]
    /\ iter_used' = [iter_used EXCEPT ![o] = 0]
    /\ joined' = [joined EXCEPT ![o] = 0]
    /\ retained_at_connect' = [retained_at_connect EXCEPT ![o] = {}]

\* The finally clause: self.clients.pop(client_id, None).  The stream has
\* ended: the queue and what the observer had received are garbage.
Close(o) ==
    /\ opc' = [opc EXCEPT ![o] = "closed"]
    /\ clients' = [clients EXCEPT ![BusOf(o)] = @ \ {o}]
    /\ client_queue' = [client_queue EXCEPT ![o] = <<>>]
    /\ received' = [received EXCEPT ![o] = <<>>]
    /\ last_yield' = [last_yield EXCEPT ![o] = "data"]
    /\ iter_pos' = [iter_pos EXCEPT ![o] = 0]
    /\ iter_used' = [iter_used EXCEPT ![o] = 0]
    /\ joined' = [joined EXCEPT ![o] = 0]
    /\ retained_at_connect' = [retained_at_connect EXCEPT ![o] = {}]

\* The observers are named in the order they arrive.
Arrival == <<"o1", "o2">>

\* client_id = uuid4(); self.clients[client_id] = Queue(maxsize=50); yield connection
Connect(o) ==
    /\ opc[o] = "idle"
    /\ \E i \in 1..Len(Arrival) :
        /\ Arrival[i] = o
        /\ \A j \in 1..(i - 1) : opc[Arrival[j]] # "idle"
    /\ opc' = [opc EXCEPT ![o] = "connected"]
    /\ clients' = [clients EXCEPT ![BusOf(o)] = @ \cup {o}]
    /\ client_queue' = [client_queue EXCEPT ![o] = <<>>]
    /\ received' = [received EXCEPT ![o] = <<Yielded("connection", ConnectionFrame)>>]
    /\ joined' = [joined EXCEPT ![o] = Len(sent[BusOf(o)])]
    /\ retained_at_connect' = [retained_at_connect EXCEPT ![o] = RetainedEntities(BusOf(o))]
    /\ UNCHANGED <<playlists, tracks, search_status, sent, iter_pos, iter_used, last_yield>>

\* The live loop is entered: the generator awaits client_queue.get().
EnterLive(o) ==
    /\ opc' = [opc EXCEPT ![o] = "live"]
    /\ iter_pos' = [iter_pos EXCEPT ![o] = 0]
    /\ iter_used' = [iter_used EXCEPT ![o] = 0]
    /\ UNCHANGED received

\* for track in self.tracks.values(): the iterator is created and asked for
\* its first item.
StartTracks(o) ==
    LET d == tracks[BusOf(o)]
    IN  IF DictLen(d) > 0
        THEN /\ opc' = [opc EXCEPT ![o] = "tracks"]
             /\ iter_pos' = [iter_pos EXCEPT ![o] = 1]
             /\ iter_used' = [iter_used EXCEPT ![o] = DictLen(d)]
             /\ received' = [received EXCEPT ![o] =
                    Append(@, Yielded("snapshot", Frame("track_update", d.map[d.order[1]])))]
        ELSE EnterLive(o)

\* The generator is resumed after the connection frame:
\* for playlist in self.playlists.values() starts.
SnapshotStart(o) ==
    /\ opc[o] = "connected"
    /\ LET d == playlists[BusOf(o)]
       IN  IF DictLen(d) > 0
           THEN /\ opc' = [opc EXCEPT ![o] = "playlists"]
                /\ iter_pos' = [iter_pos EXCEPT ![o] = 1]
                /\ iter_used' = [iter_used EXCEPT ![o] = DictLen(d)]
                /\ received' = [received EXCEPT ![o] =
                       Append(@, Yielded("snapshot", Frame("playlist_update", d.map[d.order[1]])))]
           ELSE StartTracks(o)
    /\ UNCHANGED <<bus_vars, last_yield, joined, retained_at_connect>>

\* The generator is resumed after a playlist frame.  A dict iterator raises
\* RuntimeError when the dict has changed size since it was created; the
\* exception leaves the generator through the finally clause.
SnapshotPlaylists(o) ==
    /\ opc[o] = "playlists"
    /\ LET d == playlists[BusOf(o)]
       IN  IF DictLen(d) # iter_used[o]
           THEN Close(o) /\ UNCHANGED <<playlists, tracks, search_status, sent>>
           ELSE /\ IF iter_pos[o] < DictLen(d)
                   THEN /\ iter_pos' = [iter_pos EXCEPT ![o] = @ + 1]
                        /\ received' = [received EXCEPT ![o] =
                               Append(@, Yielded("snapshot",
                                    Frame("playlist_update", d.map[d.order[iter_pos[o] + 1]])))]
                        /\ UNCHANGED <<opc, iter_used>>
                   ELSE StartTracks(o)
                /\ UNCHANGED <<bus_vars, last_yield, joined, retained_at_connect>>

\* The generator is resumed after a track frame.
SnapshotTracks(o) ==
    /\ opc[o] = "tracks"
    /\ LET d == tracks[BusOf(o)]
       IN  IF DictLen(d) # iter_used[o]
           THEN Close(o) /\ UNCHANGED <<playlists, tracks, search_status, sent>>
           ELSE /\ IF iter_pos[o] < DictLen(d)
                   THEN /\ iter_pos' = [iter_pos EXCEPT ![o] = @ + 1]
                        /\ received' = [received EXCEPT ![o] =
                               Append(@, Yielded("snapshot",
                                    Frame("track_update", d.map[d.order[iter_pos[o] + 1]])))]
                        /\ UNCHANGED <<opc, iter_used>>
                   ELSE EnterLive(o)
                /\ UNCHANGED <<bus_vars, last_yield, joined, retained_at_connect>>

\* event_type, data = await wait_for(client_queue.get(), 30.0); yield the frame
Deliver(o) ==
    /\ opc[o] = "live"
    /\ client_queue[o] # <<>>
    /\ received' = [received EXCEPT ![o] = Append(@, Yielded("live", Head(client_queue[o])))]
    /\ client_queue' = [client_queue EXCEPT ![o] = Tail(@)]
    /\ last_yield' = [last_yield EXCEPT ![o] = "data"]
    /\ UNCHANGED <<clients, playlists, tracks, search_status, sent,
                   opc, iter_pos, iter_used, joined, retained_at_connect>>

\* A timeout that is handled like a delivery error: the observer leaves the
\* registry.
KeepaliveUnsubscribes(o) ==
    /\ opc[o] = "live"
    /\ client_queue[o] = <<>>
    /\ last_yield' = [last_yield EXCEPT ![o] = "keepalive"]
    /\ clients' = [clients EXCEPT ![BusOf(o)] = @ \ {o}]
    /\ UNCHANGED <<client_queue, playlists, tracks, search_status, sent,
                   opc, iter_pos, iter_used, received, joined, retained_at_connect>>

\* except asyncio.TimeoutError: yield ": keepalive"
Keepalive(o) ==
    /\ opc[o] = "live"
    /\ client_queue[o] = <<>>
    /\ last_yield' = [last_yield EXCEPT ![o] = "keepalive"]
    /\ UNCHANGED <<bus_vars, opc, iter_pos, iter_used, received, joined, retained_at_connect>>

\* The HTTP client goes away: the generator is closed where it is suspended.
Disconnect(o) ==
    /\ opc[o] \in {"connected", "playlists", "tracks", "live"}
    /\ Close(o)
    /\ UNCHANGED <<playlists, tracks, search_status, sent>>

-----------------------------------------------------------------------------
(* The event bus on its own: observers come and go while events drawn from *)
(* small sets are published.                                               *)

TrackInputs ==
    {TrackEvent("t1", st, IF st = "completed" THEN 100 ELSE 0, None, "p1") :
        st \in {"downloading", "completed"}}

PlaylistInputs == {PlaylistEvent("p1", "downloading", 1)}

SearchInputs == {SearchEvent("p1", 1, 1, 0)}

\* The variables of manager b take the values of S.
Commit(b, S) ==
    /\ clients' = [clients EXCEPT ![b] = S.clients]
    /\ client_queue' = S.queue
    /\ playlists' = [playlists EXCEPT ![b] = S.playlists]
    /\ tracks' = [tracks EXCEPT ![b] = S.tracks]
    /\ search_status' = [search_status EXCEPT ![b] = S.search_status]
    /\ sent' = [sent EXCEPT ![b] = S.sent]

\* The events of the input sets are published in any order, each at most once.
Unpublished(b, frame) == \A i \in 1..Len(sent[b]) : sent[b][i] # frame

PublishTrack(b, track_event) ==
    /\ Len(sent[b]) < MaxSent
    /\ Unpublished(b, Frame("track_update", track_event))
    /\ Commit(b, update_track(BusState(b), track_event))
    /\ UNCHANGED obs_vars

PublishPlaylist(b, playlist_event) ==
    /\ Len(sent[b]) < MaxSent
    /\ Unpublished(b, Frame("playlist_update", playlist_event))
    /\ Commit(b, update_playlist(BusState(b), playlist_event))
    /\ UNCHANGED obs_vars

PublishSearch(b, search_event) ==
    /\ Len(sent[b]) < MaxSent
    /\ Unpublished(b, Frame("search_update", search_event))
    /\ Commit(b, update_search(BusState(b), search_event))
    /\ UNCHANGED obs_vars

\* Every manager empty and no observer connected.
InitManagers ==
    /\ clients = [b \in Buses |-> {}]
    /\ client_queue = [o \in ObserverIds |-> <<>>]
    /\ playlists = [b \in Buses |-> EmptyDict]
    /\ tracks = [b \in Buses |-> EmptyDict]
    /\ search_status = [b \in Buses |-> EmptyDict]
    /\ sent = [b \in Buses |-> <<>>]
    /\ opc = [o \in ObserverIds |-> "idle"]
    /\ iter_pos = [o \in ObserverIds |-> 0]
    /\ iter_used = [o \in ObserverIds |-> 0]
    /\ received = [o \in ObserverIds |-> <<>>]
    /\ last_yield = [o \in ObserverIds |-> "data"]
    /\ joined = [o \in ObserverIds |-> 0]
    /\ retained_at_connect = [o \in ObserverIds |-> {}]

\* PendingLastfmPlaylist.resolve is not running.
NoSearch ==
    /\ search_pc = "idle"
    /\ fallback_client = None
    /\ query_no = 0
    /\ found_count = 0
    /\ failed_count = 0
    /\ results = <<>>
    /\ searches = <<>>
    /\ meta_ids = <<>>
    /\ resolved = <<>>

\* The downloads table is looked at through db_downloads only.
NoTable ==
    /\ downloads_rows = <<>>
    /\ add_calls = <<>>
    /\ add_raised = None
    /\ failed_rows = <<>>
    /\ set_failed_calls = <<>>

\* The download is looked at through run_pc and cancelled only.
NoRegistry ==
    /\ active_downloads = {}
    /\ download_task = <<>>
    /\ response = [endpoint |-> None, task_id |-> None, body |-> None]

\* No cover has been looked up.
NoCover ==
    /\ covers = {}
    /\ cover_cache = {}
    /\ cover_lookups = <<>>

\* No download has been submitted.
NoRun ==
    /\ run_pc = "idle"
    /\ batch_lo = 1
    /\ batch_len = 1
    /\ cancelled = FALSE
    /\ item = <<>>
    /\ pc = <<>>
    /\ result = <<>>
    /\ db_downloads = {}
    /\ db_failed = {}
    /\ max_connections = 1
    /\ permits = 1
    /\ waiters = <<>>
    /\ scheduled = <<>>
    /\ progress_bars = FALSE
    /\ progress_sse = FALSE
    /\ active_progress = <<>>
    /\ sem_exit = <<>>
    /\ meta_calls = <<>>
    /\ dl_calls = <<>>
    /\ xfer_calls = <<>>
    /\ xfer_raised = <<>>

\* No download is submitted while the managers are exercised on their own.
InitBus == InitManagers /\ NoRun /\ NoSearch /\ NoTable /\ NoRegistry /\ NoCover

NextBus ==
    \/ \E o \in ObserverIds : Connect(o) /\ UNCHANGED run_vars
    \/ \E o \in ObserverIds : SnapshotStart(o) /\ UNCHANGED run_vars
    \/ \E o \in ObserverIds : SnapshotPlaylists(o) /\ UNCHANGED run_vars
    \/ \E o \in ObserverIds : SnapshotTracks(o) /\ UNCHANGED run_vars
    \/ \E o \in ObserverIds : Deliver(o) /\ UNCHANGED run_vars
    \/ \E o \in ObserverIds : Keepalive(o) /\ UNCHANGED run_vars
    \/ \E o \in ObserverIds : Disconnect(o) /\ UNCHANGED run_vars
    \/ \E e \in TrackInputs : PublishTrack("sse_server", e) /\ UNCHANGED run_vars
    \/ \E e \in PlaylistInputs : PublishPlaylist("sse_server", e) /\ UNCHANGED run_vars
    \/ \E e \in SearchInputs : PublishSearch("sse_server", e) /\ UNCHANGED run_vars

SpecBus == InitBus /\ [][NextBus]_vars

-----------------------------------------------------------------------------
(* The download pipeline.  A task is one coroutine that resolves a pending *)
(* item and rips the Track it gets (Playlist.download._resolve_download    *)
(* for a playlist track).  A step runs a coroutine from one await that     *)
(* suspends it (a call of the metadata client, of the downloadable, of the *)
(* tagger, or the semaphore) to the next.                                  *)

\* The three pending items of a run.
Tasks == {1, 2, 3}

PendingKinds == {"PendingPlaylistTrack", "PendingTrack", "PendingSingle"}

\* batch_size = 20 in Playlist.download; the model runs the same loop with
\* the smallest batches, so that a playlist of three takes several.
batch_size == 1

\* The semaphore limit (downloads.max_connections) is drawn from 1..MaxConnections.
MaxConnections == 2

\* The bytes of a track (downloadable.size()); a transfer hands them to its
\* progress callback one at a time.
TrackSize == 1

\* The manager track.py and playlist.py publish to, and the one progress.py
\* publishes to.
CoreBus == "sse_server"
ProgressBus == "admin"

\* What a pending item of each kind looks like in a run of that kind.
ItemsOf(kind) ==
    [t \in Tasks |->
        [kind |-> kind,
         id |-> <<"t1", "t2", "t3">>[t],
         playlist_id |-> IF kind = "PendingPlaylistTrack" THEN "p1" ELSE None]]

ItemId(t) == item[t].id

\* Database.downloaded(item_id): Downloads.contains(id=item_id)
downloaded(downloads, item_id) == item_id \in downloads

\* Database.set_downloaded / DatabaseBase.add on the downloads table: the
\* IntegrityError of a duplicate id is swallowed.
set_downloaded(downloads, item_id) == downloads \cup {item_id}

FailedIds(failed) == {row.id : row \in failed}

\* Database.set_failed / DatabaseBase.add on failed_downloads (id is UNIQUE).
set_failed(failed, source, media_type, id) ==
    IF id \in FailedIds(failed)
    THEN failed
    ELSE failed \cup {[source |-> source, media_type |-> media_type, id |-> id]}

\* A resolve that also skips what the failed table holds.
resolve_skips_failed(downloads, item_id) ==
    downloaded(downloads, item_id) \/ item_id \in FailedIds(db_failed)

\* A resolve that never consults the database.
resolve_never_skips(downloads, item_id) == FALSE

\* if self.db.downloaded(self.id): return None
\* (the first statement of all three resolve methods)
resolve_skips(downloads, item_id) == downloaded(downloads, item_id)

\* A gate that lets every task in.
semaphore_open(value, waiting) == TRUE

\* async with global_download_semaphore(...): the body is entered at once
\* when a permit is free and nobody is queued for one.
semaphore_free(value, waiting) == value > 0 /\ waiting = <<>>

\* A release that only happens when the block is left by a return.
released_on_return(value, exit) == IF exit = "return" THEN value + 1 ELSE value

\* The semaphore's value after the async with block of Track.download is
\* left by "return", by an exception ("raise") or by cancellation ("cancel").
released(value, exit) == value + 1

\* Marking the track failed after either attempt.
marks_failed_always(attempt) == TRUE

\* Track.download calls db.set_failed in the except clause of the retry only.
marks_failed(attempt) == attempt = 2

\* The variables of manager b take the values of S; the publish history is
\* not recorded in a pipeline run.
CommitQuiet(b, S) ==
    /\ clients' = [clients EXCEPT ![b] = S.clients]
    /\ client_queue' = S.queue
    /\ playlists' = [playlists EXCEPT ![b] = S.playlists]
    /\ tracks' = [tracks EXCEPT ![b] = S.tracks]
    /\ search_status' = [search_status EXCEPT ![b] = S.search_status]
    /\ UNCHANGED sent

ItemEvent(t, status, progress, error_message) ==
    TrackEvent(ItemId(t), status, progress, error_message, item[t].playlist_id)

\* await sse_manager.update_track(...) in track.py and playlist.py
PublishCore(t, status, progress, error_message) ==
    CommitQuiet(CoreBus, update_track(BusState(CoreBus),
                                      ItemEvent(t, status, progress, error_message)))

\* progress.emit_track_error / emit_track_found: a no-op unless SSE_AVAILABLE
PublishProgress(t, status, error_message) ==
    IF progress_sse
    THEN CommitQuiet(ProgressBus, update_track(BusState(ProgressBus),
                                               ItemEvent(t, status, 0, error_message)))
    ELSE UNCHANGED bus_vars

\* The callbacks of a progress handle create update_track tasks only when
\* progress bars are enabled and progress.py could import its manager.
CallbacksEmit == progress_bars /\ progress_sse

Scheduled(t, event) == [by |-> t, event |-> event]

\* Handle.__exit__ -> _callback_done: loop.create_task(update_track(completed))
AfterDone(t) ==
    IF CallbacksEmit
    THEN Append(scheduled, Scheduled(t, ItemEvent(t, "completed", 100, None)))
    ELSE scheduled

\* A coroutine that resumes whether or not the tasks it created have run.
MayResumeAtOnce(t) == ~cancelled

\* A coroutine resumes only after the tasks it created with create_task have
\* run: they were put on the loop's ready queue before its own wake-up.
MayResume(t) ==
    /\ ~cancelled
    /\ \A i \in 1..Len(scheduled) : scheduled[i].by # t

Finish(t, how) ==
    /\ pc' = [pc EXCEPT ![t] = "done"]
    /\ result' = [result EXCEPT ![t] = how]

FailedAfter(t) == set_failed(db_failed, "source", "track", ItemId(t))

orch_vars == <<run_pc, batch_lo, cancelled>>

RunKind == item[1].kind

\* The items of a run that is not a playlist: the first two.
Singles == {1, 2}

\* A slice that runs to the end of the list.
BatchRest(lo) == {t \in Tasks : lo <= t}

\* batch = self.tracks[i:i + batch_size]
Batch(lo) == {t \in Tasks : lo <= t /\ t < lo + batch_len}

\* The tasks of the gather the run is waiting for.
InFlight == IF RunKind = "PendingPlaylistTrack" THEN Batch(batch_lo) ELSE Singles

-----------------------------------------------------------------------------
(* resolve: PendingPlaylistTrack, PendingTrack and PendingSingle           *)

MetaOutcomes == {"ok", "none", "nonstreamable", "build_error", "error"}
DownloadableOutcomes == {"ok", "nonstreamable", "error"}
CallOutcomes == {"ok", "raise"}

\* The first statement of resolve, up to the call of client.get_metadata.
Start(t) ==
    /\ pc[t] = "ready"
    /\ MayResume(t)
    /\ IF resolve_skips(db_downloads, ItemId(t))
       THEN /\ Finish(t, "skipped")
            /\ UNCHANGED meta_calls
       ELSE /\ pc' = [pc EXCEPT ![t] = "get_metadata"]
            /\ meta_calls' = [meta_calls EXCEPT ![t] = @ + 1]
            /\ UNCHANGED result
    /\ UNCHANGED <<bus_vars, obs_vars, orch_vars, db_vars, sem_vars, cfg_vars,
                   scheduled, active_progress, dl_calls, xfer_calls, xfer_raised>>

\* resolve goes on to client.get_downloadable.
CallGetDownloadable(t) ==
    /\ pc' = [pc EXCEPT ![t] = "get_downloadable"]
    /\ dl_calls' = [dl_calls EXCEPT ![t] = @ + 1]
    /\ UNCHANGED result

\* client.get_metadata returns or raises, and the metadata is built, in
\* PendingPlaylistTrack.resolve.
PlaylistTrackMetadata(t, outcome) ==
    IF outcome = "ok"
    THEN /\ CallGetDownloadable(t)
         /\ UNCHANGED <<bus_vars, db_vars>>
    ELSE IF outcome = "none"
    THEN /\ db_failed' = FailedAfter(t)
         /\ Finish(t, "unresolved")
         /\ UNCHANGED <<bus_vars, db_downloads, dl_calls>>
    ELSE /\ db_failed' = FailedAfter(t)
         /\ PublishCore(t, "failed", 0, "error")
         /\ Finish(t, "unresolved")
         /\ UNCHANGED <<db_downloads, dl_calls>>

\* The same in PendingTrack.resolve and PendingSingle.resolve.
TrackMetadata(t, outcome) ==
    IF outcome = "ok"
    THEN /\ PublishProgress(t, "found", None)
         /\ CallGetDownloadable(t)
         /\ UNCHANGED db_vars
    ELSE IF outcome = "error"
    THEN /\ Finish(t, "raised")
         /\ UNCHANGED <<bus_vars, db_vars, dl_calls>>
    ELSE /\ db_failed' = IF outcome = "none" THEN FailedAfter(t) ELSE db_failed
         /\ PublishProgress(t, "failed", "error")
         /\ Finish(t, "unresolved")
         /\ UNCHANGED <<db_downloads, dl_calls>>

GetMetadataReturns(t, outcome) ==
    /\ pc[t] = "get_metadata"
    /\ MayResume(t)
    /\ IF item[t].kind = "PendingPlaylistTrack"
       THEN PlaylistTrackMetadata(t, outcome)
       ELSE TrackMetadata(t, outcome)
    /\ UNCHANGED <<obs_vars, orch_vars, sem_vars, cfg_vars, scheduled, active_progress,
                   meta_calls, xfer_calls, xfer_raised>>

\* Media.rip of the resolved Track up to the first suspension: preprocess
\* publishes "downloading", download enters the semaphore.
Rip(t) ==
    /\ PublishCore(t, "downloading", 0, None)
    /\ IF semaphore_free(permits, waiters)
       THEN /\ permits' = permits - 1
            /\ pc' = [pc EXCEPT ![t] = "size1"]
            /\ UNCHANGED waiters
       ELSE /\ waiters' = Append(waiters, t)
            /\ pc' = [pc EXCEPT ![t] = "sem_wait"]
            /\ UNCHANGED permits
    /\ UNCHANGED <<result, db_vars, max_connections, sem_exit>>

\* What each resolve does when get_downloadable raised.
DownloadableFails(t, outcome) ==
    LET kind == item[t].kind
    IN  IF kind = "PendingPlaylistTrack"
        THEN /\ db_failed' = FailedAfter(t)
             /\ PublishCore(t, "failed", 0, "error")
             /\ Finish(t, "unresolved")
             /\ UNCHANGED db_downloads
        ELSE IF kind = "PendingTrack" /\ outcome = "nonstreamable"
        THEN /\ PublishProgress(t, "failed", "error")
             /\ Finish(t, "unresolved")
             /\ UNCHANGED db_vars
        ELSE /\ Finish(t, "raised")
             /\ UNCHANGED <<bus_vars, db_vars>>

GetDownloadableReturns(t, outcome) ==
    /\ pc[t] = "get_downloadable"
    /\ MayResume(t)
    /\ IF outcome = "ok"
       THEN Rip(t)
       ELSE /\ DownloadableFails(t, outcome)
            /\ UNCHANGED sem_vars
    /\ UNCHANGED <<obs_vars, orch_vars, cfg_vars, scheduled, active_progress, call_vars>>

-----------------------------------------------------------------------------
(* Track.download and Track.postprocess                                    *)

\* The async with block of Track.download is left.
LeaveSemaphore(t, exit) ==
    /\ permits' = released(permits, exit)
    /\ sem_exit' = [sem_exit EXCEPT ![t] = exit]
    /\ UNCHANGED <<max_connections, waiters>>

\* A semaphore that wakes the task that came last.
last_waiter(waiting) == waiting[Len(waiting)]

\* The task a release wakes: the one that has waited longest.
next_waiter(waiting) == Head(waiting)

\* A task suspended in the semaphore's acquire() is woken and takes a permit.
SemaphoreAcquired(t) ==
    /\ pc[t] = "sem_wait"
    /\ ~cancelled
    /\ waiters # <<>>
    /\ next_waiter(waiters) = t
    /\ permits > 0
    /\ permits' = permits - 1
    /\ waiters' = SelectSeq(waiters, LAMBDA w : w # t)
    /\ pc' = [pc EXCEPT ![t] = "size1"]
    /\ UNCHANGED <<bus_vars, obs_vars, orch_vars, result, db_vars, max_connections,
                   sem_exit, cfg_vars, scheduled, active_progress, call_vars>>

\* await self.downloadable.size() and get_progress_callback(...), of the
\* first attempt or of the retry; then downloadable.download is called.
SizeReturns(t, outcome) ==
    /\ pc[t] \in {"size1", "size2"}
    /\ MayResume(t)
    /\ IF outcome = "ok"
       THEN /\ pc' = [pc EXCEPT ![t] = IF pc[t] = "size1" THEN "transfer1" ELSE "transfer2"]
            /\ xfer_calls' = [xfer_calls EXCEPT ![t] = @ + 1]
            /\ UNCHANGED <<result, sem_vars>>
       ELSE /\ LeaveSemaphore(t, "raise")
            /\ Finish(t, "raised")
            /\ UNCHANGED xfer_calls
    /\ UNCHANGED <<bus_vars, obs_vars, orch_vars, db_vars, cfg_vars, scheduled,
                   active_progress, meta_calls, dl_calls, xfer_raised>>

\* min(percentage, 100.0) of _callback_update
Percentage(progress) ==
    LET percentage == IF TrackSize > 0 THEN (progress * 100) \div TrackSize ELSE 0
    IN  IF percentage < 100 THEN percentage ELSE 100

\* The transfer hands a chunk to the handle's update callback.
TransferChunk(t) ==
    /\ pc[t] \in {"transfer1", "transfer2"}
    /\ MayResume(t)
    /\ CallbacksEmit
    /\ active_progress[t] < TrackSize
    /\ active_progress' = [active_progress EXCEPT ![t] = @ + 1]
    /\ scheduled' = Append(scheduled,
            Scheduled(t, ItemEvent(t, "downloading",
                                   Percentage(active_progress[t] + 1), None)))
    /\ UNCHANGED <<bus_vars, obs_vars, orch_vars, pc, result, db_vars, sem_vars,
                   cfg_vars, call_vars>>

\* A download that tries again after every attempt that raised.
after_raise_again(attempt) == "size2"

\* Where Track.download goes on after the except clause of an attempt: the
\* first sets retry = True and the second with block follows; after the
\* second the method is over and Media.rip calls postprocess.
after_raise(attempt) == IF attempt = 1 THEN "size2" ELSE "tag_file"

\* downloadable.download returns or raises: the rest of the attempt's with
\* block, and of Track.download up to its next suspension.
TransferReturns(t, outcome) ==
    /\ pc[t] \in {"transfer1", "transfer2"}
    /\ MayResume(t)
    /\ scheduled' = AfterDone(t)
    /\ active_progress' = [active_progress EXCEPT ![t] = 0]
    /\ IF outcome = "ok"
       THEN /\ LeaveSemaphore(t, "return")
            /\ pc' = [pc EXCEPT ![t] = "tag_file"]
            /\ UNCHANGED <<bus_vars, db_vars, xfer_raised>>
       ELSE /\ xfer_raised' = [xfer_raised EXCEPT ![t] = @ + 1]
            /\ db_failed' = IF marks_failed(IF pc[t] = "transfer1" THEN 1 ELSE 2)
                            THEN FailedAfter(t) ELSE db_failed
            /\ PublishProgress(t, "failed", "error")
            /\ IF after_raise(IF pc[t] = "transfer1" THEN 1 ELSE 2) = "size2"
               THEN /\ pc' = [pc EXCEPT ![t] = "size2"]
                    /\ UNCHANGED sem_vars
               ELSE /\ LeaveSemaphore(t, "return")
                    /\ pc' = [pc EXCEPT ![t] = "tag_file"]
            /\ UNCHANGED db_downloads
    /\ UNCHANGED <<obs_vars, orch_vars, result, cfg_vars, meta_calls, dl_calls, xfer_calls>>

\* Track.postprocess: tag_file (and the conversion) returns or raises.
TagFileReturns(t, outcome) ==
    /\ pc[t] = "tag_file"
    /\ MayResume(t)
    /\ IF outcome = "ok"
       THEN /\ db_downloads' = set_downloaded(db_downloads, ItemId(t))
            /\ PublishCore(t, "completed", 100, None)
            /\ Finish(t, "ripped")
            /\ UNCHANGED db_failed
       ELSE /\ Finish(t, "raised")
            /\ UNCHANGED <<bus_vars, db_vars>>
    /\ UNCHANGED <<obs_vars, orch_vars, sem_vars, cfg_vars, scheduled, active_progress,
                   call_vars>>

\* An update_track coroutine created by a progress callback runs.
RunScheduled ==
    /\ scheduled # <<>>
    /\ CommitQuiet(ProgressBus, update_track(BusState(ProgressBus), Head(scheduled).event))
    /\ scheduled' = Tail(scheduled)
    /\ UNCHANGED <<obs_vars, orch_vars, pc, result, db_vars, sem_vars, cfg_vars,
                   active_progress, call_vars>>

RemoveWaiter(t) == SelectSeq(waiters, LAMBDA w : w # t)

\* CancelledError is raised in a task at the await it is suspended in.  No
\* except clause of resolve or download catches it; the with and async with
\* blocks it leaves run their exits.  The gather cancels its children in the
\* order it was given them, and they are resumed in that order.
Cancelled(t) ==
    /\ cancelled
    /\ pc[t] \notin {"pending", "done"}
    /\ \A u \in Tasks : u < t => pc[u] \in {"pending", "done"}
    /\ Finish(t, "cancelled")
    /\ IF pc[t] \in {"size1", "size2", "transfer1", "transfer2"}
       THEN LeaveSemaphore(t, "cancel")
       ELSE /\ waiters' = RemoveWaiter(t)
            /\ UNCHANGED <<max_connections, permits, sem_exit>>
    /\ IF pc[t] \in {"transfer1", "transfer2"}
       THEN /\ scheduled' = AfterDone(t)
            /\ active_progress' = [active_progress EXCEPT ![t] = 0]
       ELSE UNCHANGED <<scheduled, active_progress>>
    /\ UNCHANGED <<bus_vars, obs_vars, orch_vars, db_vars, cfg_vars, call_vars>>

-----------------------------------------------------------------------------
(* The run: Playlist.rip for playlist tracks, one gather over every item   *)
(* for tracks of an album and for singles.                                 *)

NumTracks == Cardinality(Tasks)

Created(batch) == [t \in Tasks |-> IF t \in batch THEN "ready" ELSE pc[t]]

\* A gather that hands the first exception of a child to its caller.
AllDoneNoneRaised(batch) == \A t \in batch : pc[t] = "done" /\ result[t] # "raised"

\* await asyncio.gather(..., return_exceptions=True) over children that catch
\* Exception: it returns when every child has ended, however it ended.
AllDone(batch) == \A t \in batch : pc[t] = "done"

task_vars == <<result, db_vars, sem_vars, cfg_vars, scheduled, active_progress, call_vars>>

\* Playlist.preprocess, and Playlist.download up to its first gather.
PlaylistPreprocess ==
    /\ run_pc = "submitted"
    /\ RunKind = "PendingPlaylistTrack"
    /\ CommitQuiet(CoreBus, update_playlist(BusState(CoreBus),
                                            PlaylistEvent("p1", "downloading", NumTracks)))
    /\ run_pc' = "download"
    /\ pc' = Created(Batch(batch_lo))
    /\ UNCHANGED <<obs_vars, batch_lo, cancelled, task_vars>>

\* The gather of a batch returns and the for loop takes the next batch.
PlaylistNextBatch ==
    /\ run_pc = "download"
    /\ RunKind = "PendingPlaylistTrack"
    /\ ~cancelled
    /\ AllDone(Batch(batch_lo))
    /\ batch_lo + batch_len <= NumTracks
    /\ batch_lo' = batch_lo + batch_len
    /\ pc' = Created(Batch(batch_lo + batch_len))
    /\ UNCHANGED <<bus_vars, obs_vars, run_pc, cancelled, task_vars>>

\* The gather of the last batch returns; Playlist.postprocess.
PlaylistPostprocess ==
    /\ run_pc = "download"
    /\ RunKind = "PendingPlaylistTrack"
    /\ ~cancelled
    /\ AllDone(Batch(batch_lo))
    /\ batch_lo + batch_len > NumTracks
    /\ IF DictHas(playlists[CoreBus], "p1")
       THEN CommitQuiet(CoreBus,
                update_playlist(BusState(CoreBus),
                    [playlists[CoreBus].map["p1"] EXCEPT !.status = "completed"]))
       ELSE UNCHANGED bus_vars
    /\ run_pc' = "done"
    /\ UNCHANGED <<obs_vars, batch_lo, cancelled, pc, task_vars>>

\* The items that are not playlist tracks are resolved and ripped together.
RipAll ==
    /\ run_pc = "submitted"
    /\ RunKind # "PendingPlaylistTrack"
    /\ run_pc' = "download"
    /\ pc' = Created(InFlight)
    /\ UNCHANGED <<bus_vars, obs_vars, batch_lo, cancelled, task_vars>>

RipAllDone ==
    /\ run_pc = "download"
    /\ RunKind # "PendingPlaylistTrack"
    /\ ~cancelled
    /\ AllDone(InFlight)
    /\ run_pc' = "done"
    /\ UNCHANGED <<bus_vars, obs_vars, batch_lo, cancelled, pc, task_vars>>

\* cancel_download: active_downloads[task_id].cancel().  Only the downloads
\* submitted to /api/lastfm, which rip a playlist, are in active_downloads.
CancelRun ==
    /\ run_pc = "download"
    /\ RunKind = "PendingPlaylistTrack"
    /\ ~cancelled
    /\ cancelled' = TRUE
    /\ UNCHANGED <<bus_vars, obs_vars, run_pc, batch_lo, pc, task_vars>>

\* The cancelled gather ends once its children have.
RunCancelled ==
    /\ run_pc = "download"
    /\ cancelled
    /\ AllDone(InFlight)
    /\ run_pc' = "cancelled"
    /\ UNCHANGED <<bus_vars, obs_vars, batch_lo, cancelled, pc, task_vars>>

InitialDownloads == {{}, {"t2"}}

Init ==
    /\ InitManagers
    /\ run_pc = "submitted"
    /\ batch_lo = 1
    /\ batch_len = batch_size
    /\ cancelled = FALSE
    /\ \E kind \in PendingKinds : item = ItemsOf(kind)
    /\ pc = [t \in Tasks |-> "pending"]
    /\ result = [t \in Tasks |-> None]
    /\ db_downloads \in InitialDownloads
    /\ db_failed = {}
    /\ max_connections \in 1..MaxConnections
    /\ permits = max_connections
    /\ waiters = <<>>
    /\ scheduled = <<>>
    /\ progress_bars \in BOOLEAN
    /\ progress_sse \in BOOLEAN
    /\ active_progress = [t \in Tasks |-> 0]
    /\ sem_exit = [t \in Tasks |-> None]
    /\ meta_calls = [t \in Tasks |-> 0]
    /\ dl_calls = [t \in Tasks |-> 0]
    /\ xfer_calls = [t \in Tasks |-> 0]
    /\ xfer_raised = [t \in Tasks |-> 0]
    /\ NoSearch
    /\ NoTable
    /\ NoRegistry
    /\ NoCover

Next ==
    \/ PlaylistPreprocess
    \/ PlaylistNextBatch
    \/ PlaylistPostprocess
    \/ RipAll
    \/ RipAllDone
    \/ CancelRun
    \/ RunCancelled
    \/ RunScheduled
    \/ \E t \in Tasks : Start(t)
    \/ \E t \in Tasks, outcome \in MetaOutcomes : GetMetadataReturns(t, outcome)
    \/ \E t \in Tasks, outcome \in DownloadableOutcomes : GetDownloadableReturns(t, outcome)
    \/ \E t \in Tasks : SemaphoreAcquired(t)
    \/ \E t \in Tasks, outcome \in CallOutcomes : SizeReturns(t, outcome)
    \/ \E t \in Tasks : TransferChunk(t)
    \/ \E t \in Tasks, outcome \in CallOutcomes : TransferReturns(t, outcome)
    \/ \E t \in Tasks, outcome \in CallOutcomes : TagFileReturns(t, outcome)
    \/ \E t \in Tasks : Cancelled(t)

Spec == Init /\ [][Next]_vars

-----------------------------------------------------------------------------
(* A playlist whose batches hold more than one track.  The run is not      *)
(* cancelled and the progress callbacks are switched off.                  *)

\* batch_size of these runs: the first gather of a playlist of three has
\* more than one child and the loop takes more than one batch.
WaveSize == 2

\* The track lists: three different tracks, or a list naming t1 twice.
WaveItems ==
    {ItemsOf("PendingPlaylistTrack"),
     [ItemsOf("PendingPlaylistTrack") EXCEPT ![2].id = "t1"]}

InitWave ==
    /\ InitManagers
    /\ run_pc = "submitted"
    /\ batch_lo = 1
    /\ batch_len = WaveSize
    /\ cancelled = FALSE
    /\ item \in WaveItems
    /\ pc = [t \in Tasks |-> "pending"]
    /\ result = [t \in Tasks |-> None]
    /\ db_downloads \in InitialDownloads
    /\ db_failed = {}
    /\ max_connections \in 1..MaxConnections
    /\ permits = max_connections
    /\ waiters = <<>>
    /\ scheduled = <<>>
    /\ progress_bars = FALSE
    /\ progress_sse = FALSE
    /\ active_progress = [t \in Tasks |-> 0]
    /\ sem_exit = [t \in Tasks |-> None]
    /\ meta_calls = [t \in Tasks |-> 0]
    /\ dl_calls = [t \in Tasks |-> 0]
    /\ xfer_calls = [t \in Tasks |-> 0]
    /\ xfer_raised = [t \in Tasks |-> 0]
    /\ NoSearch
    /\ NoTable
    /\ NoRegistry
    /\ NoCover

NextWave ==
    \/ PlaylistPreprocess
    \/ PlaylistNextBatch
    \/ PlaylistPostprocess
    \/ \E t \in Tasks : Start(t)
    \/ \E t \in Tasks, outcome \in MetaOutcomes : GetMetadataReturns(t, outcome)
    \/ \E t \in Tasks, outcome \in DownloadableOutcomes : GetDownloadableReturns(t, outcome)
    \/ \E t \in Tasks : SemaphoreAcquired(t)
    \/ \E t \in Tasks, outcome \in CallOutcomes : SizeReturns(t, outcome)
    \/ \E t \in Tasks, outcome \in CallOutcomes : TransferReturns(t, outcome)
    \/ \E t \in Tasks, outcome \in CallOutcomes : TagFileReturns(t, outcome)

SpecWave == InitWave /\ [][NextWave]_vars

\* A playlist that fits one batch, as a playlist of up to twenty tracks
\* does: every track is resolved and downloaded in the same gather.
InitOneBatch ==
    /\ InitManagers
    /\ run_pc = "submitted"
    /\ batch_lo = 1
    /\ batch_len = NumTracks
    /\ cancelled = FALSE
    /\ item = ItemsOf("PendingPlaylistTrack")
    /\ pc = [t \in Tasks |-> "pending"]
    /\ result = [t \in Tasks |-> None]
    /\ db_downloads = {}
    /\ db_failed = {}
    /\ max_connections \in 1..MaxConnections
    /\ permits = max_connections
    /\ waiters = <<>>
    /\ scheduled = <<>>
    /\ progress_bars = FALSE
    /\ progress_sse = FALSE
    /\ active_progress = [t \in Tasks |-> 0]
    /\ sem_exit = [t \in Tasks |-> None]
    /\ meta_calls = [t \in Tasks |-> 0]
    /\ dl_calls = [t \in Tasks |-> 0]
    /\ xfer_calls = [t \in Tasks |-> 0]
    /\ xfer_raised = [t \in Tasks |-> 0]
    /\ NoSearch
    /\ NoTable
    /\ NoRegistry
    /\ NoCover

\* The for loop over the batches has one turn.
NextOneBatch ==
    \/ PlaylistPreprocess
    \/ PlaylistPostprocess
    \/ \E t \in Tasks : Start(t)
    \/ \E t \in Tasks, outcome \in MetaOutcomes : GetMetadataReturns(t, outcome)
    \/ \E t \in Tasks, outcome \in DownloadableOutcomes : GetDownloadableReturns(t, outcome)
    \/ \E t \in Tasks : SemaphoreAcquired(t)
    \/ \E t \in Tasks, outcome \in CallOutcomes : SizeReturns(t, outcome)
    \/ \E t \in Tasks, outcome \in CallOutcomes : TransferReturns(t, outcome)
    \/ \E t \in Tasks, outcome \in CallOutcomes : TagFileReturns(t, outcome)

SpecOneBatch == InitOneBatch /\ [][NextOneBatch]_vars

-----------------------------------------------------------------------------
(* A second playlist in the same process.  The module-level manager and    *)
(* the tables still hold what an earlier run left: a playlist p0 of the    *)
(* same three tracks in which get_metadata raised for t1 and for t2 and t3 *)
(* was ripped.                                                             *)

EarlierPlaylists ==
    DictSet(EmptyDict, "p0",
        [PlaylistEvent("p0", "completed", NumTracks) EXCEPT
            !.found_tracks = 1, !.failed_tracks = 2, !.completed_tracks = 1])

EarlierTracks ==
    DictSet(DictSet(DictSet(EmptyDict,
        "t1", TrackEvent("t1", "failed", 0, "error", "p0")),
        "t2", TrackEvent("t2", "failed", 0, "error", "p0")),
        "t3", TrackEvent("t3", "completed", 100, None, "p0"))

EarlierFailed == set_failed(set_failed({}, "source", "track", "t1"), "source", "track", "t2")

InitRerun ==
    /\ clients = [b \in Buses |-> {}]
    /\ client_queue = [o \in ObserverIds |-> <<>>]
    /\ playlists = [b \in Buses |-> IF b = CoreBus THEN EarlierPlaylists ELSE EmptyDict]
    /\ tracks = [b \in Buses |-> IF b = CoreBus THEN EarlierTracks ELSE EmptyDict]
    /\ search_status = [b \in Buses |-> EmptyDict]
    /\ sent = [b \in Buses |-> <<>>]
    /\ opc = [o \in ObserverIds |-> "idle"]
    /\ iter_pos = [o \in ObserverIds |-> 0]
    /\ iter_used = [o \in ObserverIds |-> 0]
    /\ received = [o \in ObserverIds |-> <<>>]
    /\ last_yield = [o \in ObserverIds |-> "data"]
    /\ joined = [o \in ObserverIds |-> 0]
    /\ retained_at_connect = [o \in ObserverIds |-> {}]
    /\ run_pc = "submitted"
    /\ batch_lo = 1
    /\ batch_len = WaveSize
    /\ cancelled = FALSE
    /\ item = ItemsOf("PendingPlaylistTrack")
    /\ pc = [t \in Tasks |-> "pending"]
    /\ result = [t \in Tasks |-> None]
    /\ db_downloads = {"t3"}
    /\ db_failed = EarlierFailed
    /\ max_connections \in 1..MaxConnections
    /\ permits = max_connections
    /\ waiters = <<>>
    /\ scheduled = <<>>
    /\ progress_bars = FALSE
    /\ progress_sse = FALSE
    /\ active_progress = [t \in Tasks |-> 0]
    /\ sem_exit = [t \in Tasks |-> None]
    /\ meta_calls = [t \in Tasks |-> 0]
    /\ dl_calls = [t \in Tasks |-> 0]
    /\ xfer_calls = [t \in Tasks |-> 0]
    /\ xfer_raised = [t \in Tasks |-> 0]
    /\ NoSearch
    /\ NoTable
    /\ NoRegistry
    /\ NoCover

SpecRerun == InitRerun /\ [][NextWave]_vars

-----------------------------------------------------------------------------
(* PendingLastfmPlaylist.resolve: the page is parsed, then every (title,   *)
(* artist) pair is searched on the primary client and, failing that, on    *)
(* the fallback client.  A step runs resolve from one await to the next.   *)

\* The pairs _parse_lastfm_playlist returns.
NumTitles == 2

Queries == 1..NumTitles

\* What an awaited client.search(...) can do: return pages whose first
\* result exists, return pages without results, return no pages, or raise.
SearchOutcomes == {"hit", "no_results", "no_pages", "raise"}

\* result.results[0].id of a search of the n-th pair on a client.
ResultId(client, n) ==
    IF client = "primary" THEN <<"t1", "t2", "t3">>[n] ELSE <<"f1", "f2", "f3">>[n]

\* `if pages:` and `if result.results:` of _search_track
has_results(outcome) == outcome = "hit"

\* A resolve that hands every track to the primary client.
used_client_primary(used_fallback) == "primary"

\* client = self.fallback_client if used_fallback else self.client
used_client(used_fallback) == IF used_fallback THEN fallback_client ELSE "primary"

Searched(client, outcome) ==
    searches' = Append(searches, [query |-> query_no, client |-> client, outcome |-> outcome])

\* What a step outside the download leaves alone: the download, and the
\* cover lookup of the radio service.
dl_vars == <<orch_vars, pc, result, db_vars, sem_vars, scheduled, active_progress,
             call_vars, item, batch_len, progress_bars, progress_sse, cover_vars>>

\* A loop that reports the pairs it found only.
EmitSearchProgressIfFound(found, failed) ==
    IF found > found_count
    THEN Commit(CoreBus, update_search(BusState(CoreBus),
                                       SearchEvent("p1", NumTitles, found, failed)))
    ELSE UNCHANGED bus_vars

\* "Emit search progress": await sse_manager.update_search(search_event)
EmitSearchProgress(found, failed) ==
    Commit(CoreBus, update_search(BusState(CoreBus),
                                  SearchEvent("p1", NumTitles, found, failed)))

\* Tracks numbered as enumerate numbers them when it is not told where to start.
PendingPlaylistTracksFromZero(entries, playlist_id) ==
    [i \in 1..Len(entries) |->
        [id |-> entries[i].track_id, client |-> entries[i].client,
         position |-> i - 1, playlist_id |-> playlist_id]]

\* [PendingPlaylistTrack(track_id, client, ..., pos, self.db, playlist_id=...)
\*  for pos, (track_id, client) in enumerate(results, start=1)]
PendingPlaylistTracks(entries, playlist_id) ==
    [i \in 1..Len(entries) |->
        [id |-> entries[i].track_id, client |-> entries[i].client,
         position |-> i, playlist_id |-> playlist_id]]

\* Playlist(name, config, client, tracks, playlist_id)
Playlist(entries, playlist_id) ==
    [playlist_id |-> playlist_id, tracks |-> PendingPlaylistTracks(entries, playlist_id)]

\* The rest of a loop iteration once _search_track has returned
\* (track_id, used_fallback), and the loop's next call of _search_track, or
\* the end of resolve.
SearchTrackReturns(track_id, used_fallback) ==
    LET found == IF track_id # None THEN found_count + 1 ELSE found_count
        failed == IF track_id # None THEN failed_count ELSE failed_count + 1
    IN  /\ found_count' = found
        /\ failed_count' = failed
        /\ results' = IF track_id # None
                      THEN Append(results, [track_id |-> track_id,
                                            client |-> used_client(used_fallback)])
                      ELSE results
        /\ EmitSearchProgress(found, failed)
        /\ IF query_no < NumTitles
           THEN /\ query_no' = query_no + 1
                /\ search_pc' = "primary"
                /\ UNCHANGED resolved
           ELSE /\ query_no' = query_no
                /\ search_pc' = "done"
                /\ resolved' = <<Playlist(results', "p1")>>

\* _parse_lastfm_playlist returns or raises.
ParseReturns(outcome) ==
    /\ search_pc = "parse"
    /\ IF outcome = "ok"
       THEN /\ Commit(CoreBus, update_playlist(BusState(CoreBus),
                                   PlaylistEvent("p1", "resolving", NumTitles)))
            /\ query_no' = 1
            /\ search_pc' = "primary"
       ELSE /\ search_pc' = "done"
            /\ UNCHANGED <<bus_vars, query_no>>
    /\ UNCHANGED <<obs_vars, dl_vars, table_vars, registry_vars, fallback_client,
                   found_count, failed_count, results, searches, meta_ids, resolved>>

\* await self.client.search("track", query, limit=1) returns or raises.
PrimarySearchReturns(outcome) ==
    /\ search_pc = "primary"
    /\ Searched("primary", outcome)
    /\ IF outcome = "raise"
       THEN SearchTrackReturns(None, FALSE)
       ELSE IF has_results(outcome)
       THEN SearchTrackReturns(ResultId("primary", query_no), FALSE)
       ELSE IF fallback_client # None
       THEN /\ search_pc' = "fallback"
            /\ UNCHANGED <<bus_vars, query_no, found_count, failed_count, results, resolved>>
       ELSE SearchTrackReturns(None, FALSE)
    /\ UNCHANGED <<obs_vars, dl_vars, table_vars, registry_vars, fallback_client, meta_ids>>

\* await self.fallback_client.search("track", query, limit=1) returns or raises.
FallbackSearchReturns(outcome) ==
    /\ search_pc = "fallback"
    /\ Searched(fallback_client, outcome)
    /\ IF outcome # "raise" /\ has_results(outcome)
       THEN SearchTrackReturns(ResultId(fallback_client, query_no), TRUE)
       ELSE SearchTrackReturns(None, FALSE)
    /\ UNCHANGED <<obs_vars, dl_vars, table_vars, registry_vars, fallback_client, meta_ids>>

\* The track lists of the playlists PendingPlaylist resolves.
SourceLists == {<<>>, <<"t1">>, <<"t2", "t1">>, <<"t1", "t1">>, <<"t3", "t1", "t2">>}

\* PendingPlaylist.resolve: client.get_metadata(self.id, "playlist") returns
\* or raises; every track of the playlist is on the client of the playlist.
PlaylistMetadataReturns(outcome) ==
    /\ search_pc = "get_playlist"
    /\ search_pc' = "done"
    /\ resolved' = IF outcome = "ok"
                   THEN <<Playlist([i \in 1..Len(meta_ids) |->
                                      [track_id |-> meta_ids[i], client |-> "primary"]], "p1")>>
                   ELSE <<>>
    /\ UNCHANGED <<bus_vars, obs_vars, dl_vars, table_vars, registry_vars, fallback_client,
                   query_no, found_count, failed_count, results, searches, meta_ids>>

InitSearch ==
    /\ InitManagers
    /\ NoRun
    /\ \/ /\ search_pc = "parse"
          /\ fallback_client \in {None, "fallback"}
          /\ meta_ids = <<>>
       \/ /\ search_pc = "get_playlist"
          /\ fallback_client = None
          /\ meta_ids \in SourceLists
    /\ query_no = 0
    /\ found_count = 0
    /\ failed_count = 0
    /\ results = <<>>
    /\ searches = <<>>
    /\ resolved = <<>>
    /\ NoTable
    /\ NoRegistry
    /\ NoCover

NextSearch ==
    \/ \E outcome \in CallOutcomes : PlaylistMetadataReturns(outcome)
    \/ \E outcome \in CallOutcomes : ParseReturns(outcome)
    \/ \E outcome \in SearchOutcomes : PrimarySearchReturns(outcome)
    \/ \E outcome \in SearchOutcomes : FallbackSearchReturns(outcome)

SpecSearch == InitSearch /\ [][NextSearch]_vars

-----------------------------------------------------------------------------
(* Everything the program does for one submission that can take more than  *)
(* one step: the run of a playlist, or the resolution of a playlist page.  *)

InitBounded == InitWave \/ InitSearch

\* The coroutines of the items exist in a run only.

NextBounded ==
    \/ PlaylistPreprocess
    \/ PlaylistNextBatch
    \/ PlaylistPostprocess
    \/ \E t \in DOMAIN pc : Start(t)
    \/ \E t \in DOMAIN pc, outcome \in MetaOutcomes : GetMetadataReturns(t, outcome)
    \/ \E t \in DOMAIN pc, outcome \in DownloadableOutcomes : GetDownloadableReturns(t, outcome)
    \/ \E t \in DOMAIN pc : SemaphoreAcquired(t)
    \/ \E t \in DOMAIN pc, outcome \in CallOutcomes : SizeReturns(t, outcome)
    \/ \E t \in DOMAIN pc, outcome \in CallOutcomes : TransferReturns(t, outcome)
    \/ \E t \in DOMAIN pc, outcome \in CallOutcomes : TagFileReturns(t, outcome)
    \/ \E outcome \in CallOutcomes : PlaylistMetadataReturns(outcome)
    \/ \E outcome \in CallOutcomes : ParseReturns(outcome)
    \/ \E outcome \in SearchOutcomes : PrimarySearchReturns(outcome)
    \/ \E outcome \in SearchOutcomes : FallbackSearchReturns(outcome)

SpecBounded == InitBounded /\ [][NextBounded]_vars

-----------------------------------------------------------------------------
(* The two tables on their own: Database.set_downloaded and                *)
(* Database.set_failed called with any ids in any order.  A call is        *)
(* synchronous, so calls of interleaved tasks happen one after the other.  *)

\* The calls of set_downloaded and set_failed a behaviour makes at most.
MaxAddCalls == 4

\* A constraint on the whole row instead of the id column.
violates_unique_row(rows, row) == \E i \in 1..Len(rows) : rows[i] = row

\* The column id of both tables is UNIQUE: "id": ["text", "unique"].
violates_unique(rows, row) == \E i \in 1..Len(rows) : rows[i].id = row.id

\* conn.execute("INSERT INTO downloads (id) VALUES (?)"): the row is added,
\* or sqlite3 raises IntegrityError and the table stays as it is.
execute_insert(rows, row) ==
    IF violates_unique(rows, row)
    THEN [rows |-> rows, raised |-> "IntegrityError"]
    ELSE [rows |-> Append(rows, row), raised |-> None]

\* An add on a table whose columns have no constraint.
add_unconstrained(rows, row) == [rows |-> Append(rows, row), raised |-> None]

\* DatabaseBase.add: except sqlite3.IntegrityError: logger.debug(e)
add(rows, row) ==
    LET executed == execute_insert(rows, row)
    IN  [rows |-> executed.rows,
         raised |-> IF executed.raised = "IntegrityError" THEN None ELSE executed.raised]

\* Database.set_downloaded(item_id): self.downloads.add((item_id,))
SetDownloaded(item_id) ==
    /\ Len(add_calls) + Len(set_failed_calls) < MaxAddCalls
    /\ LET added == add(downloads_rows, [id |-> item_id])
       IN  /\ downloads_rows' = added.rows
           /\ add_raised' = added.raised
    /\ add_calls' = Append(add_calls, item_id)
    /\ UNCHANGED <<failed_rows, set_failed_calls>>
    /\ UNCHANGED <<bus_vars, obs_vars, dl_vars, search_vars, registry_vars>>

\* The row Database.set_failed hands to Failed.add.
FailedRow(source, media_type, id) == [source |-> source, media_type |-> media_type, id |-> id]

\* Database.set_failed(source, media_type, id): self.failed.add((source, media_type, id))
SetFailed(source, media_type, id) ==
    /\ Len(add_calls) + Len(set_failed_calls) < MaxAddCalls
    /\ LET added == add(failed_rows, FailedRow(source, media_type, id))
       IN  /\ failed_rows' = added.rows
           /\ add_raised' = added.raised
    /\ set_failed_calls' = Append(set_failed_calls, FailedRow(source, media_type, id))
    /\ UNCHANGED <<downloads_rows, add_calls>>
    /\ UNCHANGED <<bus_vars, obs_vars, dl_vars, search_vars, registry_vars>>

\* client.source of the clients a run can use, and the media types.
Sources == {"qobuz", "deezer"}
MediaTypes == {"track", "album"}

\* The ids set_failed is called with.
FailedInputIds == {"t1", "t2"}

\* The tables a run can start with: no row, or one row.
InitialRows == {<<>>} \cup {<<[id |-> id]>> : id \in {"t1", "t2", "t3"}}

InitTable ==
    /\ InitManagers
    /\ NoRun
    /\ NoSearch
    /\ downloads_rows \in InitialRows
    /\ add_calls = <<>>
    /\ add_raised = None
    /\ failed_rows = <<>>
    /\ set_failed_calls = <<>>
    /\ NoRegistry
    /\ NoCover

NextTable ==
    \/ \E item_id \in {"t1", "t2", "t3"} : SetDownloaded(item_id)
    \/ \E source \in Sources, media_type \in MediaTypes, id \in FailedInputIds :
            SetFailed(source, media_type, id)

SpecTable == InitTable /\ [][NextTable]_vars

-----------------------------------------------------------------------------
(* The registry of active downloads of sse_server.py: POST /api/lastfm,    *)
(* GET /api/downloads and DELETE /api/downloads/{task_id}, and the task of *)
(* execute_download each submission creates.  What the task downloads is   *)
(* left out: it ends by returning, by an exception or by cancellation.     *)

\* The submissions a behaviour makes at most.
MaxDownloads == 3

\* task_id = str(uuid.uuid4()): the ids in the order they are generated.
DownloadIds == 1..MaxDownloads

\* A task id no submission has returned.
UnknownId == MaxDownloads + 1

\* A dict that forgets nothing.
pop_nothing(keys, task_id) == keys

\* active_downloads.pop(task_id, None)
pop(keys, task_id) == keys \ {task_id}

Response(endpoint, task_id, body) ==
    [endpoint |-> endpoint, task_id |-> task_id, body |-> body]

other_vars == <<bus_vars, obs_vars, dl_vars, search_vars, table_vars>>

\* submit_lastfm_download: the task is created and registered; it has not
\* run when the handler returns.
SubmitLastfmDownload(task_id) ==
    /\ download_task[task_id] = "unborn"
    /\ \A other \in DownloadIds : other < task_id => download_task[other] # "unborn"
    /\ download_task' = [download_task EXCEPT ![task_id] = "created"]
    /\ active_downloads' = active_downloads \cup {task_id}
    /\ response' = Response("submit_lastfm_download", task_id,
                            [task_id |-> task_id, status |-> "started"])
    /\ UNCHANGED other_vars

\* The task is run for the first time: execute_download up to its first await.
ExecuteStarts(task_id) ==
    /\ download_task[task_id] = "created"
    /\ download_task' = [download_task EXCEPT ![task_id] = "running"]
    /\ UNCHANGED <<active_downloads, response, other_vars>>

\* The body of execute_download returns, or raises an Exception that the
\* except clause logs; the finally clause then pops the id.
ExecuteEnds(task_id, outcome) ==
    /\ download_task[task_id] = "running"
    /\ download_task' = [download_task EXCEPT ![task_id] =
            IF outcome = "ok" THEN "completed" ELSE "failed"]
    /\ active_downloads' = pop(active_downloads, task_id)
    /\ UNCHANGED <<response, other_vars>>

\* The loop delivers the CancelledError: a task that had started leaves
\* through its finally clause, one that had not never runs its coroutine.
ExecuteCancelled(task_id) ==
    /\ download_task[task_id] \in {"cancelling_created", "cancelling_running"}
    /\ download_task' = [download_task EXCEPT ![task_id] = "cancelled"]
    /\ active_downloads' = IF download_task[task_id] = "cancelling_running"
                           THEN pop(active_downloads, task_id)
                           ELSE active_downloads
    /\ UNCHANGED <<response, other_vars>>

\* list_downloads
ListDownloads ==
    /\ response' = Response("list_downloads", None,
                            [active |-> active_downloads,
                             total_clients |-> Cardinality(clients[CoreBus]),
                             total_playlists |-> DictLen(playlists[CoreBus]),
                             total_tracks |-> DictLen(tracks[CoreBus])])
    /\ UNCHANGED <<active_downloads, download_task, other_vars>>

\* cancel_download
CancelDownload(task_id) ==
    /\ IF task_id \in active_downloads
       THEN /\ download_task' = [download_task EXCEPT ![task_id] =
                    IF @ = "created" THEN "cancelling_created"
                    ELSE IF @ = "running" THEN "cancelling_running"
                    ELSE @]
            /\ active_downloads' = pop(active_downloads, task_id)
            /\ response' = Response("cancel_download", task_id, [status |-> "cancelled"])
       ELSE /\ response' = Response("cancel_download", task_id,
                                  [error |-> "task not found"])
            /\ UNCHANGED <<active_downloads, download_task>>
    /\ UNCHANGED other_vars

InitRegistry ==
    /\ InitManagers
    /\ NoRun
    /\ NoSearch
    /\ NoTable
    /\ active_downloads = {}
    /\ download_task = [task_id \in DownloadIds |-> "unborn"]
    /\ response = [endpoint |-> None, task_id |-> None, body |-> None]
    /\ NoCover

NextRegistry ==
    \/ \E task_id \in DownloadIds : SubmitLastfmDownload(task_id)
    \/ \E task_id \in DownloadIds : ExecuteStarts(task_id)
    \/ \E task_id \in DownloadIds, outcome \in CallOutcomes : ExecuteEnds(task_id, outcome)
    \/ \E task_id \in DownloadIds : ExecuteCancelled(task_id)
    \/ ListDownloads
    \/ \E task_id \in DownloadIds \cup {UnknownId} : CancelDownload(task_id)

SpecRegistry == InitRegistry /\ [][NextRegistry]_vars

-----------------------------------------------------------------------------
(* The aggregator on its own: two playlists are retained as downloading,   *)
(* as Playlist.preprocess leaves them, and track events of either playlist *)
(* are published in any order.  sent holds the frames of the last publish. *)

\* total_tracks of the two playlists is drawn from 0..MaxTotal.
MaxTotal == 2

StatsPlaylistIds == {"p0", "p1"}

StatsTrackIds == {"t1", "t2"}

\* The progress values of the downloading events of a track.
ProgressOf(status) ==
    IF status = "downloading" THEN {0, 50}
    ELSE IF status = "completed" THEN {100}
    ELSE {0}

StatsTrackInputs ==
    UNION {{TrackEvent(id, status, progress,
                       IF status = "failed" THEN "error" ELSE None, playlist_id) :
                progress \in ProgressOf(status)} :
            id \in StatsTrackIds,
            status \in {"found", "downloading", "completed", "failed"},
            playlist_id \in StatsPlaylistIds}

\* update_playlist(PlaylistEvent(status="downloading", total_tracks=n)) of
\* two playlists.
StatsPlaylists(n0, n1) ==
    DictSet(DictSet(EmptyDict, "p0", PlaylistEvent("p0", "downloading", n0)),
            "p1", PlaylistEvent("p1", "downloading", n1))

\* await sse_manager.update_track(track_event)
StatsPublishTrack(track_event) ==
    /\ Commit(CoreBus, update_track([BusState(CoreBus) EXCEPT !.sent = <<>>], track_event))
    /\ UNCHANGED <<obs_vars, run_vars>>

InitStats ==
    /\ clients = [b \in Buses |-> {}]
    /\ client_queue = [o \in ObserverIds |-> <<>>]
    /\ \E n0, n1 \in 0..MaxTotal :
        playlists = [b \in Buses |-> IF b = CoreBus THEN StatsPlaylists(n0, n1) ELSE EmptyDict]
    /\ tracks = [b \in Buses |-> EmptyDict]
    /\ search_status = [b \in Buses |-> EmptyDict]
    /\ sent = [b \in Buses |-> <<>>]
    /\ opc = [o \in ObserverIds |-> "idle"]
    /\ iter_pos = [o \in ObserverIds |-> 0]
    /\ iter_used = [o \in ObserverIds |-> 0]
    /\ received = [o \in ObserverIds |-> <<>>]
    /\ last_yield = [o \in ObserverIds |-> "data"]
    /\ joined = [o \in ObserverIds |-> 0]
    /\ retained_at_connect = [o \in ObserverIds |-> {}]
    /\ NoRun
    /\ NoSearch
    /\ NoTable
    /\ NoRegistry
    /\ NoCover

NextStats == \E track_event \in StatsTrackInputs : StatsPublishTrack(track_event)

SpecStats == InitStats /\ [][NextStats]_vars

\* Track events of a download that is no playlist (playlist_id is None), and
\* of a playlist the manager does not retain.
UnhomedTrackInputs ==
    {TrackEvent(id, status, 0, IF status = "failed" THEN "error" ELSE None, playlist_id) :
        id \in StatsTrackIds,
        status \in {"downloading", "failed"},
        playlist_id \in {None, "p9"}}

\* Track events of the retained playlists and of other downloads.
NextStatsFrame ==
    \/ \E track_event \in StatsTrackInputs : StatsPublishTrack(track_event)
    \/ \E track_event \in UnhomedTrackInputs : StatsPublishTrack(track_event)

SpecStatsFrame == InitStats /\ [][NextStatsFrame]_vars

-----------------------------------------------------------------------------
(* The cover lookup of the radio service: CoverArtLookup.lookup_cover_url  *)
(* with its cache table, while covers are added to the covers table and    *)
(* the cache is cleared.  A string is the sequence of its characters.      *)

\* The lookups a behaviour makes at most.
MaxLookups == 3

\* str.lower() of a character
LowerChar(c) == IF c = "A" THEN "a" ELSE IF c = "X" THEN "x" ELSE c

\* str.lower()
Lower(str) == [i \in 1..Len(str) |-> LowerChar(str[i])]

RECURSIVE Strip(_)
\* str.strip()
Strip(str) ==
    IF str = <<>> THEN str
    ELSE IF Head(str) = " " THEN Strip(Tail(str))
    ELSE IF str[Len(str)] = " " THEN Strip(SubSeq(str, 1, Len(str) - 1))
    ELSE str

\* "|".join(key_parts)
Join(key_parts) == key_parts[1] \o <<"|">> \o key_parts[2] \o <<"|">> \o key_parts[3]

\* CoverArtLookup.get_cache_key
get_cache_key(artist, title, album) ==
    Join(<<Strip(Lower(artist)), Strip(Lower(title)),
           IF album # <<>> THEN Strip(Lower(album)) ELSE <<>>>>)

\* A cache read that takes a row without values for no row.
get_from_cache_valued(cache, cache_key) ==
    LET rows == {row \in cache : row.lookup_key = cache_key /\ row.cover_url # None}
    IN  IF rows # {}
        THEN LET row == CHOOSE r \in rows : TRUE
             IN  <<[track_id |-> row.track_id, cover_url |-> row.cover_url, source |-> "cache"]>>
        ELSE <<>>

\* CoverArtLookup.get_from_cache: <<the dict>> of the row with the key
\* (lookup_key is the primary key), or <<>> for None.
get_from_cache(cache, cache_key) ==
    LET rows == {row \in cache : row.lookup_key = cache_key}
    IN  IF rows # {}
        THEN LET row == CHOOSE r \in rows : TRUE
             IN  <<[track_id |-> row.track_id, cover_url |-> row.cover_url, source |-> "cache"]>>
        ELSE <<>>

\* INSERT OR REPLACE INTO cover_cache (lookup_key, track_id, cover_url)
insert_or_replace(cache, row) ==
    {r \in cache : r.lookup_key # row.lookup_key} \cup {row}

\* CoverArtLookup.cache_result: a result of None is stored as a row of NULLs.
cache_result(cache, cache_key, found) ==
    IF found # <<>>
    THEN insert_or_replace(cache, [lookup_key |-> cache_key, track_id |-> found[1].track_id,
                                   cover_url |-> found[1].cover_url])
    ELSE insert_or_replace(cache, [lookup_key |-> cache_key, track_id |-> None,
                                   cover_url |-> None])

\* CoverArtLookup.search_by_metadata: the query compares LOWER(artist) and
\* LOWER(title); a row without a cover_url counts as no row.
search_by_metadata(table, artist, title) ==
    LET rows == {row \in table : /\ Lower(row.artist) = Lower(artist)
                                 /\ Lower(row.title) = Lower(title)}
    IN  IF rows # {} /\ (CHOOSE r \in rows : TRUE).cover_url # ""
        THEN LET row == CHOOSE r \in rows : TRUE
             IN  <<[track_id |-> row.track_id, artist |-> row.artist, title |-> row.title,
                    cover_url |-> row.cover_url, source |-> "database"]>>
        ELSE <<>>

CoverLookup(artist, title, album, searched, found) ==
    [artist |-> artist, title |-> title, album |-> album, searched |-> searched,
     result |-> found]

\* CoverArtLookup.lookup_cover_url
LookupCoverUrl(artist, title, album) ==
    /\ Len(cover_lookups) < MaxLookups
    /\ LET cache_key == get_cache_key(artist, title, album)
           cached == get_from_cache(cover_cache, cache_key)
           found == search_by_metadata(covers, artist, title)
       IN  IF cached # <<>>
           THEN /\ cover_lookups' = Append(cover_lookups,
                                           CoverLookup(artist, title, album, FALSE, cached))
                /\ UNCHANGED cover_cache
           ELSE /\ cover_cache' = cache_result(cover_cache, cache_key, found)
                /\ cover_lookups' = Append(cover_lookups,
                                           CoverLookup(artist, title, album, TRUE, found))
    /\ UNCHANGED <<covers, bus_vars, obs_vars, orch_vars, pc, result, db_vars, sem_vars,
                   scheduled, active_progress, call_vars, item, batch_len, progress_bars,
                   progress_sse, search_vars, table_vars, registry_vars>>

\* clear_cover_cache: DELETE FROM cover_cache
ClearCoverCache ==
    /\ cover_cache # {}
    /\ cover_cache' = {}
    /\ UNCHANGED <<covers, cover_lookups, bus_vars, obs_vars, orch_vars, pc, result, db_vars,
                   sem_vars, scheduled, active_progress, call_vars, item, batch_len,
                   progress_bars, progress_sse, search_vars, table_vars, registry_vars>>

\* The rows a download adds to the covers table; the second has no cover.
CoverRows ==
    {[track_id |-> "t1", artist |-> <<"A">>, title |-> <<"x">>, cover_url |-> "u1"],
     [track_id |-> "t2", artist |-> <<"b">>, title |-> <<"x">>, cover_url |-> ""]}

\* Covers.add_cover: INSERT OR REPLACE INTO covers (track_id is the primary key)
AddCover(row) ==
    /\ row \notin covers
    /\ covers' = {r \in covers : r.track_id # row.track_id} \cup {row}
    /\ UNCHANGED <<cover_cache, cover_lookups, bus_vars, obs_vars, orch_vars, pc, result,
                   db_vars, sem_vars, scheduled, active_progress, call_vars, item, batch_len,
                   progress_bars, progress_sse, search_vars, table_vars, registry_vars>>

\* The query parameters of GET /api/cover.
Artists == {<<"a">>, <<"A", " ">>, <<"b">>}
Titles == {<<"x">>, <<" ", "X">>}
Albums == {<<>>}

InitCover ==
    /\ InitManagers
    /\ NoRun
    /\ NoSearch
    /\ NoTable
    /\ NoRegistry
    /\ NoCover

NextCover ==
    \/ \E artist \in Artists, title \in Titles, album \in Albums :
            LookupCoverUrl(artist, title, album)
    \/ ClearCoverCache
    \/ \E row \in CoverRows : AddCover(row)

SpecCover == InitCover /\ [][NextCover]_vars

-----------------------------------------------------------------------------
(* Observers that stay connected while events for two playlists and two    *)
(* tracks are published: the retained maps grow while a snapshot is read.  *)

GrowingTrackInputs ==
    {TrackEvent(track_id, "downloading", 0, None, "p1") : track_id \in {"t1", "t2"}}

GrowingPlaylistInputs ==
    {PlaylistEvent(playlist_id, "downloading", 1) : playlist_id \in {"p1", "p2"}}

NextSnapshot ==
    \/ \E o \in ObserverIds : Connect(o) /\ UNCHANGED run_vars
    \/ \E o \in ObserverIds : SnapshotStart(o) /\ UNCHANGED run_vars
    \/ \E o \in ObserverIds : SnapshotPlaylists(o) /\ UNCHANGED run_vars
    \/ \E o \in ObserverIds : SnapshotTracks(o) /\ UNCHANGED run_vars
    \/ \E o \in ObserverIds : Deliver(o) /\ UNCHANGED run_vars
    \/ \E o \in ObserverIds : Keepalive(o) /\ UNCHANGED run_vars
    \/ \E e \in GrowingTrackInputs : PublishTrack("sse_server", e) /\ UNCHANGED run_vars
    \/ \E e \in GrowingPlaylistInputs : PublishPlaylist("sse_server", e) /\ UNCHANGED run_vars

SpecSnapshot == InitBus /\ [][NextSnapshot]_vars

-----------------------------------------------------------------------------
(* Properties of the event bus, checked under SpecBus.                     *)

ActivePcs == {"connected", "playlists", "tracks", "live"}

\* The frames observer o has taken out of its queue, in order.
Delivered(o) ==
    LET live == SelectSeq(received[o], LAMBDA y : y.src = "live")
    IN  [i \in 1..Len(live) |-> live[i].frame]

\* The frames published on bus b since observer o subscribed.
SentSince(b, o) == SubSeq(sent[b], joined[o] + 1, Len(sent[b]))

\* C7: every observer that is still subscribed (its queue never overflowed)
\* has been handed every frame published since it subscribed, exactly once
\* and in publish order: what it took out of its queue followed by what is
\* still queued is the publish history since it joined.
FanOutInOrder ==
    \A b \in Buses : \A o \in clients[b] :
        Delivered(o) \o client_queue[o] = SentSince(b, o)

\* Two subscribed observers have each been handed at least two frames, and
\* one of them has already consumed some.
FanOutWitness ==
    /\ clients["sse_server"] = ObserverIds
    /\ \A o \in ObserverIds : Len(Delivered(o)) + Len(client_queue[o]) >= 2
    /\ \E o \in ObserverIds : Len(Delivered(o)) >= 1
    /\ \E o \in ObserverIds : joined[o] > 0

\* C8: a publish that finds the queue of a subscribed observer full leaves
\* that queue as it is and removes that observer from the registry, while
\* every subscribed observer whose queue has room gets the event appended.
OverflowDropsOnlyThatObserver ==
    [][\A b \in Buses :
        Len(sent'[b]) > Len(sent[b]) =>
            LET frame == sent'[b][Len(sent[b]) + 1]
            IN  \A o \in clients[b] :
                    IF Len(client_queue[o]) >= QueueMaxSize
                    THEN /\ o \notin clients'[b]
                         /\ client_queue'[o] = client_queue[o]
                    ELSE /\ Len(client_queue'[o]) > Len(client_queue[o])
                         /\ client_queue'[o][Len(client_queue[o]) + 1] = frame
      ]_vars

\* A publish went through although one observer's queue was full: that
\* observer's stream is still open but it is no longer registered, and the
\* other observer holds the event published last.
OverflowWitness ==
    \E o1 \in ObserverIds : \E o2 \in ObserverIds \ {o1} :
        /\ opc[o1] \in ActivePcs
        /\ o1 \notin clients[BusOf(o1)]
        /\ Len(client_queue[o1]) = QueueMaxSize
        /\ o2 \in clients[BusOf(o2)]
        /\ client_queue[o2] # <<>>
        /\ Len(sent[BusOf(o2)]) = MaxSent
        /\ client_queue[o2][Len(client_queue[o2])] = sent[BusOf(o2)][MaxSent]

\* A manager with these dicts retains the data of the frame for its entity.
RetainsFrame(playlist_dict, track_dict, search_dict, frame) ==
    LET d == IF frame.event_type = "track_update" THEN track_dict
             ELSE IF frame.event_type = "playlist_update" THEN playlist_dict
             ELSE search_dict
        k == EntityOf(frame)[2]
    IN  DictHas(d, k) /\ d.map[k] = frame.data

\* A dict holds every key once.
KeysOnce(d) ==
    /\ Len(d.order) = Cardinality(DOMAIN d.map)
    /\ {d.order[i] : i \in 1..Len(d.order)} = DOMAIN d.map

\* C9 as claimed: an observer that has reached the live loop was sent the
\* connection frame first, then snapshot frames, then live frames only, and
\* the snapshot held exactly one frame for every entity (collection, track
\* or search) that was retained when it subscribed.
SnapshotCoversAllRetained ==
    \A o \in ObserverIds :
        opc[o] = "live" =>
            /\ received[o][1] = Yielded("connection", ConnectionFrame)
            /\ \A i \in 2..Len(received[o]) :
                    /\ received[o][i].src \in {"snapshot", "live"}
                    /\ received[o][i].src = "snapshot" =>
                            received[o][i - 1].src \in {"connection", "snapshot"}
            /\ \A e \in retained_at_connect[o] :
                    Cardinality({i \in 1..Len(received[o]) :
                        /\ received[o][i].src = "snapshot"
                        /\ EntityOf(received[o][i].frame) = e}) = 1

\* C10: right after an event is published the manager retains that very
\* event for its entity id, and each retained dict holds every id once.
RetainsLatest ==
    [][\A b \in Buses :
        Len(sent'[b]) > Len(sent[b]) =>
            LET frame == sent'[b][Len(sent[b]) + 1]
            IN  /\ RetainsFrame(playlists'[b], tracks'[b], search_status'[b], frame)
                /\ KeysOnce(playlists'[b])
                /\ KeysOnce(tracks'[b])
                /\ KeysOnce(search_status'[b])
      ]_vars

\* Nobody ever subscribed, two different events were published for track t1,
\* and the later one is retained.
RetainsLatestWitness ==
    /\ \A o \in ObserverIds : opc[o] = "idle"
    /\ Len(sent["sse_server"]) >= 2
    /\ sent["sse_server"][1] = Frame("track_update", TrackEvent("t1", "downloading", 0, None, "p1"))
    /\ sent["sse_server"][2] = Frame("track_update", TrackEvent("t1", "completed", 100, None, "p1"))
    /\ tracks["sse_server"].map["t1"].status = "completed"

-----------------------------------------------------------------------------
(* Properties of the download pipeline, checked under Spec.                *)

\* C1: for each of the three pending items, when the id is in the completed
\* set as resolve starts, resolve ends at once with "skipped": it has called
\* neither get_metadata nor get_downloadable, and the step publishes no event,
\* creates no publishing task and writes to neither table of the store.
SkipsCompleted ==
    [][\A t \in Tasks :
          (/\ pc[t] = "ready"
           /\ pc'[t] # "ready"
           /\ ~cancelled
           /\ ItemId(t) \in db_downloads)
          => /\ pc'[t] = "done"
             /\ result'[t] = "skipped"
             /\ meta_calls'[t] = 0
             /\ dl_calls'[t] = 0
             /\ UNCHANGED <<bus_vars, db_vars, scheduled>>]_vars

SkipsCompletedWitness ==
    \E t, u \in Tasks :
        /\ result[t] = "skipped"
        /\ ItemId(t) \in db_downloads
        /\ result[u] = "ripped"

DownloadPcs == {"sem_wait", "size1", "transfer1", "size2", "transfer2"}

\* C2: a track's transfer is called at most twice, the second time only
\* after the first call raised; when both calls have raised the id is in the
\* failed set, and a step of Track.download writes to the failed set only as
\* the second call raises.
AtMostTwoTransfers ==
    [][\A t \in Tasks :
          /\ xfer_calls'[t] <= 2
          /\ (xfer_calls'[t] = 2 /\ xfer_calls[t] = 1) => xfer_raised[t] = 1
          /\ xfer_raised'[t] = 2 => ItemId(t) \in FailedIds(db_failed')
          /\ (pc[t] \in DownloadPcs /\ pc'[t] # pc[t] /\ db_failed' # db_failed)
                => (xfer_raised[t] = 1 /\ xfer_raised'[t] = 2)]_vars

AtMostTwoTransfersWitness ==
    \E t, u \in Tasks :
        /\ xfer_calls[t] = 2
        /\ xfer_raised[t] = 2
        /\ ItemId(t) \in FailedIds(db_failed)
        /\ xfer_calls[u] = 2
        /\ xfer_raised[u] = 1
        /\ result[u] = "ripped"
        /\ ItemId(u) \notin FailedIds(db_failed)

TerminalStatuses == {"completed", "failed"}

\* C3: once the event retained for a track id (the last one published for
\* it) has status completed or failed, no event with another status is
\* published for that id.
TrackStatusTerminal ==
    [][\A b \in Buses : \A id \in DOMAIN tracks[b].map :
          tracks[b].map[id].status \in TerminalStatuses
          => tracks'[b].map[id].status = tracks[b].map[id].status]_vars

\* Scenario A has been run to its end: a playlist of three tracks of which
\* two were transferred at the first attempt and ripped, and one raised in
\* both attempts.
ScenarioA ==
    /\ run_pc = "done"
    /\ RunKind = "PendingPlaylistTrack"
    /\ scheduled = <<>>
    /\ \E f \in Tasks :
        /\ xfer_raised[f] = 2
        /\ \A t \in Tasks \ {f} :
            xfer_calls[t] = 1 /\ xfer_raised[t] = 0 /\ result[t] = "ripped"

StatusCount(b, status) ==
    Cardinality({id \in DOMAIN tracks[b].map : tracks[b].map[id].status = status})

ScenarioAExpected(b) ==
    /\ StatusCount(b, "completed") = 2
    /\ StatusCount(b, "failed") = 1
    /\ DictHas(playlists[b], "p1")
    /\ playlists[b].map["p1"].status = "completed"
    /\ playlists[b].map["p1"].completed_tracks = 2
    /\ playlists[b].map["p1"].failed_tracks = 1

\* C4: at the end of scenario A a manager retains two completed track
\* events, one failed track event, and the playlist event with status
\* completed, completed_tracks = 2 and failed_tracks = 1.
ScenarioAOutcome == ScenarioA => \E b \in Buses : ScenarioAExpected(b)

InTransfer == {t \in Tasks : pc[t] \in {"transfer1", "transfer2"}}

\* C5: in every state the tasks inside a transfer, first attempt or retry,
\* are at most as many as the semaphore's limit.
TransfersBounded == Cardinality(InTransfer) <= max_connections

TransfersBoundedWitness ==
    /\ Cardinality(InTransfer) = max_connections
    /\ waiters # <<>>

Holders == {t \in Tasks : pc[t] \in {"size1", "transfer1", "size2", "transfer2"}}

\* C6: the permits that are free and the tasks inside the async with block
\* of Track.download always add up to the semaphore's limit, so every way of
\* leaving the block gives its permit back and all permits are free when no
\* download is in progress.
PermitsConserved ==
    /\ permits + Cardinality(Holders) = max_connections
    /\ Holders = {} => permits = max_connections

PermitsConservedWitness ==
    /\ Holders = {}
    /\ permits = max_connections
    /\ \E t, u, v \in Tasks :
        /\ sem_exit[t] = "cancel"
        /\ sem_exit[u] = "raise"
        /\ sem_exit[v] = "return" /\ xfer_raised[v] = 2

\* ---------------------------------------------------------------------
\* Collections
\* ---------------------------------------------------------------------

\* C11: a retained collection event whose status is completed has
\* completed_tracks + failed_tracks equal to total_tracks, also after
\* Playlist.postprocess has published the final event and when tracks of
\* the collection were skipped.
CompletedCountsAddUp ==
    \A b \in Buses : \A p \in DOMAIN playlists[b].map :
        playlists[b].map[p].status = "completed"
        => playlists[b].map[p].completed_tracks
           + playlists[b].map[p].failed_tracks
           = playlists[b].map[p].total_tracks


\* The chunk of the ordered list the item at position t belongs to.
ChunkOf(t) == (t - 1) \div batch_len

\* The items whose resolve-then-rip coroutine exists and has not ended.
Running == {t \in Tasks : pc[t] \notin {"pending", "done"}}

\* C12: Playlist.download takes the ordered list in consecutive chunks of at
\* most batch_size items; the items created in one step are exactly one
\* chunk, no item of a chunk is created before every item of the chunks
\* before it has ended, at most batch_size items are running, and every
\* item is created exactly once: a created item is never created again and
\* the run ends only when every item has ended.
ChunksOneAfterAnother ==
    [][LET created == {t \in Tasks : pc[t] = "pending" /\ pc'[t] # "pending"}
       IN  /\ \A t \in created :
                /\ pc'[t] = "ready"
                /\ created = {u \in Tasks : ChunkOf(u) = ChunkOf(t)}
                /\ \A u \in Tasks : ChunkOf(u) < ChunkOf(t) => pc[u] = "done"
           /\ Cardinality(created) <= batch_len
           /\ Cardinality({t \in Tasks : pc'[t] \notin {"pending", "done"}}) <= batch_len
           /\ \A t \in Tasks :
                /\ pc[t] # "pending" => pc'[t] # "pending"
                /\ pc'[t] = "ready" => pc[t] \in {"pending", "ready"}
           /\ run_pc' = "done" => \A t \in Tasks : pc'[t] = "done"]_vars

\* The second chunk is running after both items of the first chunk, which
\* were created together, have been ripped.
ChunksOneAfterAnotherWitness ==
    /\ batch_len = WaveSize
    /\ \E t \in Tasks :
        /\ ChunkOf(t) = 1
        /\ t \in Running
        /\ Cardinality({u \in Tasks : ChunkOf(u) = 0}) = WaveSize
        /\ \A u \in Tasks : ChunkOf(u) = 0 => result[u] = "ripped"


\* The loop of Playlist.download can take its next step.
LoopGoesOn == ENABLED (PlaylistNextBatch \/ PlaylistPostprocess)

\* C13: an exception raised while one item of a chunk is resolved or
\* downloaded ends that item only: the step leaves every other item and the
\* run where they were, no item is ever cancelled, the run never ends with
\* an exception, and once every item of the chunk has ended the loop goes
\* on to the next chunk or to Playlist.postprocess.
ExceptionStaysInItem ==
    /\ [][\A t \in Tasks :
            result[t] # "raised" /\ result'[t] = "raised"
            => /\ run_pc' = run_pc
               /\ \A u \in Tasks \ {t} : pc'[u] = pc[u] /\ result'[u] = result[u]]_vars
    /\ [](/\ run_pc \in {"submitted", "download", "done"}
          /\ \A t \in Tasks : result[t] # "cancelled"
          /\ (/\ run_pc = "download"
              /\ \A t \in Tasks : ChunkOf(t) = ChunkOf(batch_lo) => pc[t] = "done")
             => LoopGoesOn
          /\ run_pc = "done" => \A t \in Tasks : pc[t] = "done")

\* One item of the first chunk has raised and the other one is inside its
\* transfer.
ExceptionStaysInItemWitness ==
    \E t, u \in Batch(1) :
        /\ t # u
        /\ result[t] = "raised"
        /\ pc[u] = "transfer1"


\* Some manager retains a track event of the collection: one was published.
TrackEventPublished ==
    \E b \in Buses : \E id \in DOMAIN tracks[b].map :
        tracks[b].map[id].playlist_id = "p1"

\* C14: in a run of a collection the collection event with status
\* downloading is published before any track event of the collection; the
\* collection event with status completed is published once the last chunk
\* has ended, whatever became of its tracks; and after that final event no
\* track event of the collection is published or waiting to be published.
CollectionEventsBracketTracks ==
    /\ [][RunKind = "PendingPlaylistTrack"
          => /\ tracks' # tracks => run_pc \notin {"submitted", "done"}
             /\ run_pc = "download" /\ run_pc' = "done"
                => /\ \A t \in Tasks : pc[t] = "done"
                   /\ playlists'[CoreBus].map["p1"].status = "completed"
             /\ run_pc = "done" => tracks' = tracks /\ scheduled' = scheduled]_vars
    /\ [](RunKind = "PendingPlaylistTrack"
          => /\ run_pc = "submitted" => ~TrackEventPublished
             /\ TrackEventPublished
                => /\ DictHas(playlists[CoreBus], "p1")
                   /\ playlists[CoreBus].map["p1"].total_tracks = NumTracks
             /\ run_pc = "done" => scheduled = <<>>)

\* The run of a playlist has ended with the final event retained, after a
\* track was ripped with its progress callbacks publishing and another one
\* raised in both attempts.
CollectionEventsBracketTracksWitness ==
    /\ RunKind = "PendingPlaylistTrack"
    /\ run_pc = "done"
    /\ CallbacksEmit
    /\ playlists[CoreBus].map["p1"].status = "completed"
    /\ \E t, u \in Tasks :
        /\ result[t] = "ripped" /\ xfer_raised[t] = 0
        /\ xfer_raised[u] = 2
        /\ DictHas(tracks[ProgressBus], ItemId(t))


\* C15: the retained status of a collection only moves forward, resolving
\* then downloading then completed: once a manager retains a collection as
\* completed, no later publish makes it downloading or resolving again.
CollectionStatusForward ==
    [][\A b \in Buses : \A p \in DOMAIN playlists[b].map :
          playlists[b].map[p].status = "completed"
          => playlists'[b].map[p].status = "completed"]_vars


\* The ids the items of a run can have.
TrackIds == {"t1", "t2", "t3"}

\* The manager retains a track event for the id, with a status among these.
RetainedTrackIn(b, id, statuses) ==
    DictHas(tracks[b], id) /\ tracks[b].map[id].status \in statuses

\* C16: every track and every collection for which an event with a status
\* that is not terminal has been published eventually has an event with a
\* terminal status published, also when the size query, the transfer or the
\* post-processing raises.  A run that has ended with no created publish
\* left to run publishes nothing more, so by then every event a manager
\* retains for the run has to be terminal.
EveryEntityEndsTerminal ==
    run_pc = "done" /\ scheduled = <<>>
    => \A b \in Buses :
        /\ \A id \in TrackIds :
            DictHas(tracks[b], id) => RetainedTrackIn(b, id, TerminalStatuses)
        /\ DictHas(playlists[b], "p1") => playlists[b].map["p1"].status = "completed"

\* C17: for every kind of pending item, when fetching or building the
\* metadata fails in any way (not streamable included), resolve returns
\* without an item to download, the id has been put in the failed table and
\* a track event with status failed has been published for it.
MetadataFailureIsRecorded ==
    [][\A t \in Tasks :
          pc[t] = "get_metadata" /\ pc'[t] = "done" /\ result'[t] # "cancelled"
          => /\ result'[t] = "unresolved"
             /\ ItemId(t) \in FailedIds(db_failed')
             /\ \E b \in Buses :
                  /\ DictHas(tracks'[b], ItemId(t))
                  /\ tracks'[b].map[ItemId(t)].status = "failed"]_vars


\* The outcomes of the searches of the n-th pair on a client, in call order.
OutcomesOf(n, client) ==
    LET idx == {i \in 1..Len(searches) :
                    searches[i].query = n /\ searches[i].client = client}
    IN  {searches[i].outcome : i \in idx}

\* The pairs whose iteration of the for loop is over.
SearchedPairs ==
    {n \in Queries : n < query_no \/ (n = query_no /\ search_pc = "done")}

HitOn(n, client) == "hit" \in OutcomesOf(n, client)

\* C18: for each pair the primary client is searched first and once; the
\* fallback client is searched if and only if a fallback is configured and
\* the primary search returned without a result; a track found through the
\* fallback is appended with the fallback client, one found on the primary
\* with the primary client; and the search event retained after a pair
\* counts the pairs found on either client as found, the others as failed.
SearchWithFallback ==
    /\ \A i \in 1..Len(searches) :
        /\ searches[i].client # "primary"
           => i > 1 /\ searches[i - 1] = [query |-> searches[i].query,
                                          client |-> "primary",
                                          outcome |-> searches[i - 1].outcome]
        /\ \A j \in 1..Len(searches) :
            searches[j].query = searches[i].query /\ searches[j].client = searches[i].client
            => j = i
    /\ \A n \in SearchedPairs :
        /\ OutcomesOf(n, "primary") # {}
        /\ OutcomesOf(n, "fallback") # {}
           <=> /\ fallback_client = "fallback"
               /\ OutcomesOf(n, "primary") \subseteq {"no_results", "no_pages"}
        /\ HitOn(n, "primary")
           => \E k \in 1..Len(results) :
                results[k] = [track_id |-> ResultId("primary", n), client |-> "primary"]
        /\ HitOn(n, "fallback")
           => \E k \in 1..Len(results) :
                results[k] = [track_id |-> ResultId("fallback", n), client |-> "fallback"]
    /\ SearchedPairs # {}
       => LET hits == {n \in SearchedPairs : HitOn(n, "primary") \/ HitOn(n, "fallback")}
          IN  /\ Len(results) = Cardinality(hits)
              /\ DictHas(search_status[CoreBus], "p1")
              /\ search_status[CoreBus].map["p1"]
                 = SearchEvent("p1", NumTitles, Cardinality(hits),
                               Cardinality(SearchedPairs \ hits))

\* Scenario B: the primary search of the first pair returned no match, the
\* fallback search returned one, and the search event after that pair has
\* been published.
SearchWithFallbackWitness ==
    /\ searches = <<[query |-> 1, client |-> "primary", outcome |-> "no_results"],
                    [query |-> 1, client |-> "fallback", outcome |-> "hit"]>>
    /\ results = <<[track_id |-> "f1", client |-> "fallback"]>>
    /\ search_status[CoreBus].map["p1"].found = 1
    /\ search_status[CoreBus].map["p1"].failed = 0


\* The rows of the downloads table that hold the id.
RowsOf(rows, id) == {i \in 1..Len(rows) : rows[i].id = id}

\* C19: set_downloaded is idempotent: after a call with an id, whether the
\* first or a repeated one, the table holds exactly one row with that id,
\* the call has raised nothing, and the rows of the other ids are the ones
\* the table held before; a repeated call leaves the table as it was.
SetDownloadedIdempotent ==
    [][\A id \in TrackIds :
          add_calls' = Append(add_calls, id)
          => /\ Cardinality(RowsOf(downloads_rows', id)) = 1
             /\ add_raised' = None
             /\ \A other \in TrackIds \ {id} :
                  RowsOf(downloads_rows', other) = RowsOf(downloads_rows, other)
             /\ RowsOf(downloads_rows, id) # {} => downloads_rows' = downloads_rows]_vars

\* set_downloaded has been called three times with t1, with a call for t2
\* in between, and the table holds one row for each.
SetDownloadedIdempotentWitness ==
    /\ add_calls = <<"t1", "t1", "t2", "t1">>
    /\ downloads_rows = <<[id |-> "t1"], [id |-> "t2"]>>
    /\ add_raised = None


\* C20: an id that is in the completed set is never transferred again: no
\* call of downloadable.download for an item is made in a state in which
\* the item's id is in the downloads table, also when two pending items of
\* one batch have the same id.
CompletedNeverTransferred ==
    [][\A t \in Tasks :
          xfer_calls'[t] = xfer_calls[t] + 1 => ~downloaded(db_downloads, ItemId(t))]_vars


\* ---------------------------------------------------------------------
\* Cancellation and the registry of active downloads
\* ---------------------------------------------------------------------

\* C21: once the top-level task of a run has been cancelled, no manager is
\* handed an event of that run, no transfer is called, no item of a later
\* chunk is created and the loop does not move on; and when the cancelled
\* task has ended, every item has ended or was never created.
CancelStopsTheRun ==
    /\ [][cancelled
          => /\ tracks' = tracks
             /\ playlists' = playlists
             /\ xfer_calls' = xfer_calls
             /\ batch_lo' = batch_lo
             /\ \A t \in Tasks : pc[t] = "pending" => pc'[t] = "pending"]_vars
    /\ [](run_pc = "cancelled" => \A t \in Tasks : pc[t] \in {"pending", "done"})


\* The submitted tasks that have neither ended nor been cancelled.
Unfinished == {task_id \in DownloadIds : download_task[task_id] \in {"created", "running"}}

\* The last call was a DELETE and this is what it answered.
Answered(resp, field, text) ==
    /\ resp.endpoint = "cancel_download"
    /\ DOMAIN resp.body = {field}
    /\ resp.body[field] = text

CompletedOnlyAfterTransfer ==
    \A t \in Tasks :
        /\ result[t] = "ripped" => xfer_raised[t] < xfer_calls[t]
        /\ (xfer_raised[t] = 2 /\ pc[t] = "done")
           => /\ ItemId(t) \in FailedIds(db_failed)
              /\ ItemId(t) \notin db_downloads
              /\ ~RetainedTrackIn(CoreBus, ItemId(t), {"completed"})


\* The tracks a manager retains for the collection, with a status among these.
TracksOf(track_dict, playlist_id, statuses) ==
    {k \in DOMAIN track_dict.map :
        /\ track_dict.map[k].playlist_id = playlist_id
        /\ track_dict.map[k].status \in statuses}

AllStatuses == {"found", "downloading", "completed", "failed"}

\* The counters of the retained collection are the counts of its retained tracks.
CountersFresh(playlist_dict, track_dict, playlist_id) ==
    LET playlist == playlist_dict.map[playlist_id]
    IN  /\ playlist.found_tracks
           = Cardinality(TracksOf(track_dict, playlist_id, {"found", "downloading", "completed"}))
        /\ playlist.completed_tracks
           = Cardinality(TracksOf(track_dict, playlist_id, {"completed"}))
        /\ playlist.failed_tracks
           = Cardinality(TracksOf(track_dict, playlist_id, {"failed"}))

\* The frames a step hands to broadcast_event on manager b.
Published(b) == SubSeq(sent'[b], Len(sent[b]) + 1, Len(sent'[b]))

\* C24: the step that publishes a track event also runs the aggregator:
\* after it every retained collection with at least one retained track has
\* counters equal to the counts of its retained tracks, the collection
\* updates of the step come after the track update, each carries the event
\* the manager retains for its collection, and every observer that is still
\* subscribed has the frames of the step at the end of its queue in that order.
StatsRunWithinPublish ==
    [][\A b \in Buses :
          (Len(sent'[b]) > Len(sent[b]) /\ Published(b)[1].event_type = "track_update")
          => /\ \A p \in DOMAIN playlists'[b].map :
                  TracksOf(tracks'[b], p, AllStatuses) # {}
                  => CountersFresh(playlists'[b], tracks'[b], p)
             /\ \A i \in 2..Len(Published(b)) :
                  /\ Published(b)[i].event_type = "playlist_update"
                  /\ Published(b)[i].data
                     = playlists'[b].map[Published(b)[i].data.playlist_id]
             /\ \A p \in DOMAIN playlists[b].map :
                  playlists'[b].map[p] # playlists[b].map[p]
                  => \E i \in 2..Len(Published(b)) :
                        Published(b)[i].data = playlists'[b].map[p]
             /\ \A o \in clients'[b] :
                  client_queue'[o] = client_queue[o] \o Published(b)]_vars

\* A track event of a retained collection was published while an observer
\* was subscribed; the collection update it caused is the frame after it and
\* the observer has been handed both.
StatsRunWithinPublishWitness ==
    \E o \in clients[CoreBus] :
        /\ Len(sent[CoreBus]) = 3
        /\ sent[CoreBus][2].event_type = "track_update"
        /\ sent[CoreBus][3].event_type = "playlist_update"
        /\ sent[CoreBus][3].data.found_tracks = 1
        /\ joined[o] <= 1
        /\ Len(Delivered(o) \o client_queue[o]) >= 2


\* The status the aggregator derives from the counters and the total.
DerivedStatus(playlist, before) ==
    IF playlist.completed_tracks + playlist.failed_tracks = playlist.total_tracks
       /\ playlist.total_tracks > 0
    THEN "completed"
    ELSE IF playlist.completed_tracks > 0 \/ playlist.found_tracks > 0
    THEN "downloading"
    ELSE before

Counters(playlist) ==
    <<playlist.found_tracks, playlist.completed_tracks, playlist.failed_tracks>>

\* C25: after the aggregator has run, every retained collection has found,
\* completed and failed equal to the counts of its retained tracks by
\* status; when a counter changed, the status is completed if completed +
\* failed = total_tracks > 0, else downloading if completed > 0 or found >
\* 0, else what it was; when none changed the status is what it was.
AggregatorRecounts ==
    [][\A p \in DOMAIN playlists[CoreBus].map :
          LET before == playlists[CoreBus].map[p]
              after == playlists'[CoreBus].map[p]
          IN  /\ CountersFresh(playlists'[CoreBus], tracks'[CoreBus], p)
              /\ after.total_tracks = before.total_tracks
              /\ after.status = IF Counters(after) # Counters(before)
                                THEN DerivedStatus(after, before.status)
                                ELSE before.status]_vars


\* The collection updates for p among the frames of the last publish.
UpdatesOf(frames, p) ==
    {i \in 1..Len(frames) :
        frames[i].event_type = "playlist_update" /\ frames[i].data.playlist_id = p}

\* C26: the aggregator publishes a collection only when it changed it: a
\* publish of a track event that leaves the three counters of a retained
\* collection as they were hands no collection update for it to
\* broadcast_event and leaves its retained event, status included, as it
\* was; a publish that changes a counter hands over exactly one, carrying
\* the retained event.
PublishesOnlyOnChange ==
    [][\A p \in DOMAIN playlists[CoreBus].map :
          LET before == playlists[CoreBus].map[p]
              after == playlists'[CoreBus].map[p]
              updates == UpdatesOf(sent'[CoreBus], p)
          IN  IF Counters(after) = Counters(before)
              THEN after = before /\ updates = {}
              ELSE /\ Cardinality(updates) = 1
                   /\ \A i \in updates : sent'[CoreBus][i].data = after]_vars

\* The second downloading event of t1, with more progress, was published
\* for a collection that already counted t1 as found: the publish handed
\* over the track update and nothing else.
PublishesOnlyOnChangeWitness ==
    /\ DictHas(tracks[CoreBus], "t1")
    /\ tracks[CoreBus].map["t1"] = TrackEvent("t1", "downloading", 50, None, "p0")
    /\ playlists[CoreBus].map["p0"].found_tracks = 1
    /\ playlists[CoreBus].map["p0"].total_tracks = 2
    /\ sent[CoreBus] = <<Frame("track_update", tracks[CoreBus].map["t1"])>>


\* C27: when the run of a collection is over and every one of its tracks has
\* ended failed (none was ever completed), the manager retains the
\* collection with status failed, not completed.
AllFailedEndsFailed ==
    (/\ run_pc = "done"
     /\ RunKind = "PendingPlaylistTrack"
     /\ \A t \in Tasks : RetainedTrackIn(CoreBus, ItemId(t), {"failed"})
     /\ db_downloads = {})
    => /\ DictHas(playlists[CoreBus], "p1")
       /\ playlists[CoreBus].map["p1"].status = "failed"


\* C28: the completed event of a track is published after the track was
\* post-processed and marked completed: in every state in which a manager
\* retains an event with status completed for the id of an item, the id is
\* in the downloads table.
CompletedEventAfterMark ==
    \A b \in Buses : \A t \in Tasks :
        RetainedTrackIn(b, ItemId(t), {"completed"}) => downloaded(db_downloads, ItemId(t))


\* ---------------------------------------------------------------------
\* Resolution of an external playlist
\* ---------------------------------------------------------------------

\* The search events published so far, in publish order.
SearchEvents ==
    LET frames == SelectSeq(sent[CoreBus], LAMBDA f : f.event_type = "search_update")
    IN  [i \in 1..Len(frames) |-> frames[i].data]

\* C29: resolve publishes exactly one search event for every pair, in pair
\* order and before the next pair is searched, also for a pair whose search
\* raised: the events published are as many as the pairs whose iteration is
\* over, and while the search of the n-th pair is awaited they are n - 1;
\* the i-th event has found + failed = i and total = the number of pairs,
\* and found and failed never decrease from one event to the next.
OneSearchEventPerPair ==
    /\ Len(SearchEvents) = Cardinality(SearchedPairs)
    /\ search_pc \in {"primary", "fallback"} => Len(SearchEvents) = query_no - 1
    /\ \A i \in 1..Len(SearchEvents) :
        /\ SearchEvents[i].playlist_id = "p1"
        /\ SearchEvents[i].found + SearchEvents[i].failed = i
        /\ SearchEvents[i].total = NumTitles
        /\ SearchEvents[i].found >= 0 /\ SearchEvents[i].failed >= 0
        /\ i > 1 => /\ SearchEvents[i].found >= SearchEvents[i - 1].found
                    /\ SearchEvents[i].failed >= SearchEvents[i - 1].failed
    /\ Len(SearchEvents) > 0
       => /\ SearchEvents[Len(SearchEvents)].found = found_count
          /\ SearchEvents[Len(SearchEvents)].failed = failed_count

\* The search of the first pair raised, the second pair was found, and an
\* event was published after each.
OneSearchEventPerPairWitness ==
    /\ search_pc = "done"
    /\ Len(searches) >= 2
    /\ searches[1] = [query |-> 1, client |-> "primary", outcome |-> "raise"]
    /\ searches[2] = [query |-> 2, client |-> "primary", outcome |-> "hit"]
    /\ Len(SearchEvents) >= 2
    /\ SearchEvents[1] = SearchEvent("p1", NumTitles, 0, 1)
    /\ SearchEvents[2] = SearchEvent("p1", NumTitles, 1, 1)


\* The ids of a list of pending playlist tracks, in list order.
IdsOf(pending) == [i \in 1..Len(pending) |-> pending[i].id]

RECURSIVE FoundUpTo(_)
\* The ids found for the first n pairs, in pair order, each with the client
\* it was found on.
FoundUpTo(n) ==
    IF n = 0 THEN <<>>
    ELSE IF HitOn(n, "primary")
    THEN Append(FoundUpTo(n - 1), [track_id |-> ResultId("primary", n), client |-> "primary"])
    ELSE IF HitOn(n, "fallback")
    THEN Append(FoundUpTo(n - 1), [track_id |-> ResultId("fallback", n), client |-> "fallback"])
    ELSE FoundUpTo(n - 1)

\* The playlist came from an external page: resolve has searched.
External == searches # <<>>

\* C30: the Playlist a resolve returns holds one pending playlist track for
\* every track of the source, in source order, each with the playlist's
\* collection id and with the positions 1, 2, ..., N; for an external
\* playlist the tracks are the pairs that were found, in pair order, N is
\* their number whatever pairs were not found, and the collection id is the
\* id of the resolving event and of every search event published.
ExpansionNumbersTracks ==
    \A k \in 1..Len(resolved) :
        LET pending == resolved[k].tracks
        IN  /\ \A i \in 1..Len(pending) :
                /\ pending[i].position = i
                /\ pending[i].playlist_id = resolved[k].playlist_id
            /\ IF External
               THEN /\ Len(pending) = found_count
                    /\ [i \in 1..Len(pending) |->
                            [track_id |-> pending[i].id, client |-> pending[i].client]]
                       = FoundUpTo(NumTitles)
                    /\ \A i \in 1..Len(sent[CoreBus]) :
                            sent[CoreBus][i].data.playlist_id = resolved[k].playlist_id
                    /\ sent[CoreBus][1].event_type = "playlist_update"
                    /\ sent[CoreBus][1].data.status = "resolving"
               ELSE IdsOf(pending) = meta_ids

\* The first pair of an external playlist was not found and the last one
\* was: the playlist holds one track, at position 1.
ExpansionNumbersTracksWitness ==
    /\ Len(resolved) = 1
    /\ ~HitOn(1, "primary") /\ ~HitOn(1, "fallback")
    /\ HitOn(NumTitles, "primary")
    /\ Len(resolved[1].tracks) >= 1
    /\ resolved[1].tracks[Len(resolved[1].tracks)].id = ResultId("primary", NumTitles)
    /\ resolved[1].tracks[Len(resolved[1].tracks)].position < NumTitles


\* ---------------------------------------------------------------------
\* The tables across calls and runs
\* ---------------------------------------------------------------------

\* C31: set_failed is idempotent keyed by id: after any calls the failed
\* table holds at most one row per id; a call with an id the table holds,
\* also with another source or media type, raises nothing and leaves the
\* table as it was; a call with a new id appends the row it was given; and
\* no call of set_failed changes the downloads table.
SetFailedIdempotent ==
    /\ [](\A id \in TrackIds : Cardinality(RowsOf(failed_rows, id)) <= 1)
    /\ [][\A source \in Sources, media_type \in MediaTypes, id \in FailedInputIds :
            set_failed_calls' = Append(set_failed_calls, FailedRow(source, media_type, id))
            => /\ add_raised' = None
               /\ downloads_rows' = downloads_rows
               /\ IF RowsOf(failed_rows, id) # {}
                  THEN failed_rows' = failed_rows
                  ELSE failed_rows' = Append(failed_rows, FailedRow(source, media_type, id))]_vars

\* set_failed was called twice for t1, the second time with another source
\* and another media type, and once for t2: the table holds the row of the
\* first call for t1, and the downloads table holds its row for t1.
SetFailedIdempotentWitness ==
    /\ set_failed_calls = <<FailedRow("qobuz", "track", "t1"),
                            FailedRow("deezer", "album", "t1"),
                            FailedRow("deezer", "track", "t2")>>
    /\ failed_rows = <<FailedRow("qobuz", "track", "t1"), FailedRow("deezer", "track", "t2")>>
    /\ downloads_rows = <<[id |-> "t1"]>>
    /\ add_raised = None


\* C32: failure is not terminal across runs: resolve skips an item exactly
\* when its id is in the downloads table, whatever the failed table holds,
\* so an id that is in the failed table only has its metadata fetched
\* again; and when its download succeeds the id is added to the downloads
\* table, the failed table staying as it was.
FailureNotTerminal ==
    [][\A t \in Tasks :
          /\ (pc[t] = "ready" /\ pc'[t] # "ready")
             => /\ result'[t] = "skipped" <=> downloaded(db_downloads, ItemId(t))
                /\ ~downloaded(db_downloads, ItemId(t))
                   => /\ pc'[t] = "get_metadata"
                      /\ meta_calls'[t] = meta_calls[t] + 1
          /\ (pc[t] = "tag_file" /\ result'[t] = "ripped")
             => /\ downloaded(db_downloads', ItemId(t))
                /\ db_failed' = db_failed]_vars

\* An id the earlier run left in the failed table has been ripped in this
\* run: it is in both tables, and the id the earlier run completed was skipped.
FailureNotTerminalWitness ==
    \E t, u \in Tasks :
        /\ ItemId(t) \in FailedIds(EarlierFailed)
        /\ ItemId(t) \in FailedIds(db_failed)
        /\ result[t] = "ripped"
        /\ downloaded(db_downloads, ItemId(t))
        /\ result[u] = "skipped"
        /\ ItemId(u) \notin FailedIds(db_failed)


\* ---------------------------------------------------------------------
\* Termination
\* ---------------------------------------------------------------------

\* The awaits and statements a resolve-then-rip coroutine at this position
\* has before it at most.
StepsLeft(position) ==
    CASE position = "pending" -> 10
      [] position = "ready" -> 9
      [] position = "get_metadata" -> 8
      [] position = "get_downloadable" -> 7
      [] position = "sem_wait" -> 6
      [] position = "size1" -> 5
      [] position = "transfer1" -> 4
      [] position = "size2" -> 3
      [] position = "transfer2" -> 2
      [] position = "tag_file" -> 1
      [] OTHER -> 0

\* The same for the coroutine that drives the run.
RunStepsLeft ==
    CASE run_pc = "submitted" -> 2
      [] run_pc = "download" -> 1
      [] OTHER -> 0

\* The same for the resolve of a playlist page.
SearchStepsLeft ==
    CASE search_pc = "parse" -> 2 * NumTitles + 1
      [] search_pc = "get_playlist" -> 1
      [] search_pc = "primary" -> 2 * (NumTitles - query_no) + 2
      [] search_pc = "fallback" -> 2 * (NumTitles - query_no) + 1
      [] OTHER -> 0

RECURSIVE SumSteps(_)
SumSteps(S) ==
    IF S = {} THEN 0
    ELSE LET t == CHOOSE u \in S : TRUE
         IN  StepsLeft(pc[t]) + SumSteps(S \ {t})

\* A natural number that bounds the steps a behaviour can still take.
Rank == RunStepsLeft + SearchStepsLeft + SumSteps(DOMAIN pc)

\* client.get_downloadable can return to the coroutine of an item: the
\* guard of GetDownloadableReturns.
MayGetDownloadable == \E t \in DOMAIN pc : pc[t] = "get_downloadable" /\ MayResume(t)

\* One of these steps of the run or of the resolution is possible.
CanStep ==
    \/ MayGetDownloadable
    \/ ENABLED (\/ PlaylistNextBatch
                \/ \E t \in DOMAIN pc : Start(t)
                \/ \E t \in DOMAIN pc : GetMetadataReturns(t, "ok")
                \/ \E t \in DOMAIN pc : SemaphoreAcquired(t)
                \/ \E t \in DOMAIN pc : SizeReturns(t, "ok")
                \/ \E t \in DOMAIN pc : TransferReturns(t, "ok")
                \/ \E t \in DOMAIN pc : TagFileReturns(t, "raise")
                \/ PlaylistMetadataReturns("ok")
                \/ PrimarySearchReturns("hit")
                \/ FallbackSearchReturns("hit")
                \/ ParseReturns("ok")
                \/ PlaylistPreprocess
                \/ PlaylistPostprocess)

\* Something is still going on.
Unended == run_pc \in {"submitted", "download"} \/ search_pc \notin {"idle", "done"}

\* The calls of client.search for the n-th pair on the client.
SearchCalls(n, client) ==
    {i \in 1..Len(searches) : searches[i].query = n /\ searches[i].client = client}

\* C33: nothing retries without bound.  Every step of a playlist run and of
\* the resolution of a playlist page lowers a natural number, and as long
\* as the run or the resolution has not ended some step is possible: since
\* every external call returns or raises, both end.  get_metadata is called
\* at most once and the transfer at most twice for an item, and each client
\* is searched at most once for a pair.
NothingRetriesForever ==
    /\ [][Rank' < Rank]_vars
    /\ [](/\ Rank >= 0
          /\ Unended => CanStep
          /\ \A t \in DOMAIN pc : meta_calls[t] <= 1 /\ xfer_calls[t] <= 2
          /\ \A n \in Queries : \A client \in {"primary", "fallback"} :
                Cardinality(SearchCalls(n, client)) <= 1)

\* A run has ended in which one item was ripped at its second attempt and
\* another one raised in both: nothing is left to do.
NothingRetriesForeverWitness ==
    /\ run_pc = "done"
    /\ Rank = 0
    /\ \E t \in Tasks :
        xfer_calls[t] = 2 /\ xfer_raised[t] = 1 /\ meta_calls[t] = 1 /\ result[t] = "ripped"
    /\ \E t \in Tasks : xfer_raised[t] = 2


\* ---------------------------------------------------------------------
\* Observers
\* ---------------------------------------------------------------------

\* C34: the step in which the live loop of an observer yields a keepalive
\* is taken with the observer's queue empty, and it changes nothing else:
\* the registry, every queue and what every observer has received stay as
\* they were and the observer stays in the live loop; an observer that was
\* subscribed is still subscribed, and what it takes out of its queue
\* afterwards is what was published, in publish order.
KeepaliveKeepsObserver ==
    /\ [][\A o \in ObserverIds :
            (last_yield[o] = "data" /\ last_yield'[o] = "keepalive")
            => /\ opc[o] = "live" /\ opc'[o] = "live"
               /\ client_queue[o] = <<>>
               /\ UNCHANGED <<clients, client_queue, received, sent>>]_vars
    /\ [](\A o \in ObserverIds :
            last_yield[o] = "keepalive" => opc[o] = "live")
    /\ []FanOutInOrder

\* An observer yielded a keepalive, is still subscribed, and an event
\* published after the keepalive is in its queue.
KeepaliveKeepsObserverWitness ==
    \E o \in ObserverIds :
        /\ last_yield[o] = "keepalive"
        /\ o \in clients[BusOf(o)]
        /\ client_queue[o] # <<>>
        /\ Delivered(o) # <<>>


\* q is p followed by the first frames of frames, all of them if whole.
ExtendsBy(q, p, frames, whole) ==
    \E k \in 0..Len(frames) :
        /\ q = p \o SubSeq(frames, 1, k)
        /\ whole => k = Len(frames)

\* C35: the life of an observer.  Its id is in the registry only while its
\* stream is open; it enters the registry as it connects and leaves it as the
\* stream ends (disconnect, an error in the generator) or as a publish finds
\* its queue full, and once the stream has ended the id is not in the
\* registry.  The queue of an observer that is not in the registry gets
\* nothing more, so an observer removed for overflow is handed no event
\* published after its removal.  No queue ever holds more than its maximum.
\* A step that removes an observer leaves the queue of every other observer
\* as it was, apart from the frames that step publishes to it.
ObserverLifecycle ==
    /\ [](\A b \in Buses : \A o \in ObserverIds :
            /\ o \in clients[b] => b = BusOf(o) /\ opc[o] \in ActivePcs
            /\ Len(client_queue[o]) <= QueueMaxSize)
    /\ [][\A o \in ObserverIds :
            LET b == BusOf(o)
            IN  /\ (o \notin clients[b] /\ o \in clients'[b])
                   => opc[o] = "idle" /\ opc'[o] = "connected"
                /\ (o \in clients[b] /\ o \notin clients'[b])
                   => /\ \/ opc'[o] = "closed"
                         \/ /\ Len(sent'[b]) > Len(sent[b])
                            /\ Len(client_queue'[o]) = QueueMaxSize
                            /\ ExtendsBy(client_queue'[o], client_queue[o], Published(b), FALSE)
                            /\ opc'[o] = opc[o]
                      /\ \A u \in ObserverIds \ {o} :
                            ExtendsBy(client_queue'[u], client_queue[u], Published(BusOf(u)),
                                      u \in clients'[BusOf(u)])
                /\ (o \notin clients[b] /\ o \notin clients'[b])
                   => Len(client_queue'[o]) <= Len(client_queue[o])]_vars

\* An observer was removed because a publish found its queue full and its
\* stream is still open; another event has been published since, which the
\* other observer holds and the removed one does not.
ObserverLifecycleWitness ==
    \E o \in ObserverIds : \E u \in ObserverIds \ {o} :
        /\ opc[o] = "live"
        /\ o \notin clients[BusOf(o)]
        /\ u \in clients[BusOf(u)]
        /\ Len(sent[BusOf(o)]) = MaxSent
        /\ \E i \in 1..Len(client_queue[u]) : client_queue[u][i] = sent[BusOf(u)][MaxSent]
        /\ \A i \in 1..Len(received[o]) : received[o][i].frame # sent[BusOf(o)][MaxSent]
        /\ \A i \in 1..Len(client_queue[o]) : client_queue[o][i] # sent[BusOf(o)][MaxSent]
        /\ Len(Delivered(o)) + Len(client_queue[o]) = QueueMaxSize
        /\ Delivered(o) # <<>>


-----------------------------------------------------------------------------
(* Properties of the cover lookup, checked under SpecCover.                *)

\* The answer of GET /api/cover is found: result and result.get('cover_url')
CoverFound(found) == found # <<>> /\ found[1].cover_url # None

\* The rows of a cache under the key of a call.
CachedUnder(cache, call) ==
    {row \in cache : row.lookup_key = get_cache_key(call.artist, call.title, call.album)}

\* C36: a lookup whose normalised key has a row in the cache, negative or
\* positive, makes no search, leaves the cache as it is and answers with the
\* cover_url of the row (none for a negative row); a lookup whose key has no
\* row searches and caches what the search returned; and a row leaves the
\* cache or changes only when the cache is cleared.
NegativeCaching ==
    /\ [][Len(cover_lookups') = Len(cover_lookups) + 1 =>
            LET call == cover_lookups'[Len(cover_lookups')]
            IN  IF CachedUnder(cover_cache, call) # {}
                THEN /\ ~call.searched
                     /\ cover_cache' = cover_cache
                     /\ call.result # <<>>
                     /\ \A row \in CachedUnder(cover_cache, call) :
                            /\ call.result[1].cover_url = row.cover_url
                            /\ CoverFound(call.result) <=> row.cover_url # None
                ELSE /\ call.searched
                     /\ call.result = search_by_metadata(covers, call.artist, call.title)
                     /\ CachedUnder(cover_cache', call) # {}
                     /\ \A row \in CachedUnder(cover_cache', call) :
                            IF call.result = <<>> THEN row.cover_url = None
                            ELSE row.cover_url = call.result[1].cover_url]_vars
    /\ [][cover_cache' = {} \/ cover_cache \subseteq cover_cache']_vars
    /\ [](\A r1, r2 \in cover_cache : r1.lookup_key = r2.lookup_key => r1 = r2)

\* A lookup was searched and found nothing; a cover it would find was then
\* added; a second lookup, spelt differently but of the same key, was answered
\* from the cache without a search and without a cover.
NegativeCachingWitness ==
    /\ Len(cover_lookups) = 2
    /\ cover_lookups[1].searched
    /\ cover_lookups[1].result = <<>>
    /\ cover_lookups[1].artist # cover_lookups[2].artist
    /\ ~cover_lookups[2].searched
    /\ ~CoverFound(cover_lookups[2].result)
    /\ search_by_metadata(covers, cover_lookups[2].artist, cover_lookups[2].title) # <<>>


-----------------------------------------------------------------------------
(* Properties of the snapshot under publishing, checked under SpecSnapshot, *)
(* where no observer disconnects.                                          *)

\* The frames published since observer o subscribed.
PublishedSince(o) ==
    {sent[BusOf(o)][i] : i \in (joined[o] + 1)..Len(sent[BusOf(o)])}

\* The frames observer o was sent or holds in its queue.
Reached(o) ==
    {received[o][i].frame : i \in 1..Len(received[o])}
    \cup {client_queue[o][i] : i \in 1..Len(client_queue[o])}

\* C37 as claimed: no stream of an observer that does not disconnect ends,
\* whatever is published while it reads its snapshot, and every event
\* published since a registered observer subscribed was sent to it or is in
\* its queue.
PublishDuringSnapshotKeepsStream ==
    /\ \A o \in ObserverIds : opc[o] # "closed"
    /\ \A o \in clients["sse_server"] : PublishedSince(o) \subseteq Reached(o)

\* What holds of the events: a registered observer misses none.
PublishDuringSnapshotReaches ==
    \A o \in clients["sse_server"] : PublishedSince(o) \subseteq Reached(o)

\* An observer is suspended in a snapshot loop over a map that has grown
\* since the loop began.
SnapshotMapGrew ==
    \E o \in ObserverIds :
        \/ opc[o] = "playlists" /\ DictLen(playlists[BusOf(o)]) > iter_used[o]
        \/ opc[o] = "tracks" /\ DictLen(tracks[BusOf(o)]) > iter_used[o]


-----------------------------------------------------------------------------
(* The permit of Track.download across both attempts, checked under        *)
(* SpecOneBatch and Spec.                                                  *)

\* The steps a transfer that has handed over active_progress chunks has
\* before it at most, with the update_track tasks it will create.
TransferStepsLeft(t) == 2 * (TrackSize - active_progress[t]) + 2

\* The steps size() and the transfer after it take at most.
AttemptSteps == 1 + 2 * TrackSize + 2

\* The steps a task has before it at most until it leaves the async with
\* block of Track.download.
HoldStepsLeft(t) ==
    IF pc[t] = "size1" THEN 2 * AttemptSteps
    ELSE IF pc[t] = "transfer1" THEN TransferStepsLeft(t) + AttemptSteps
    ELSE IF pc[t] = "size2" THEN AttemptSteps
    ELSE IF pc[t] = "transfer2" THEN TransferStepsLeft(t)
    ELSE 0

RECURSIVE SumHoldSteps(_)
SumHoldSteps(S) ==
    IF S = {} THEN 0
    ELSE LET t == CHOOSE u \in S : TRUE
         IN  HoldStepsLeft(t) + SumHoldSteps(S \ {t})

Waiting == {waiters[i] : i \in 1..Len(waiters)}

\* The place of a waiting task in the queue of the semaphore.
PlaceOf(waiting, t) == CHOOSE i \in 1..Len(waiting) : waiting[i] = t

\* What stands between a waiting task and its permit: the tasks before it
\* in the queue, each for a whole Track.download, the tasks inside the
\* block for what they have left, and the update_track tasks to be run.
WaitLeft(t) ==
    PlaceOf(waiters, t) * (2 * AttemptSteps + 1)
    + SumHoldSteps(Holders) + Len(scheduled)

\* A step of the semaphore's side: a task inside the block moves, a waiter
\* is let in, or an update_track task runs.
HolderStep ==
    \/ \E h \in Holders : pc'[h] # pc[h] \/ active_progress'[h] # active_progress[h]
    \/ Holders' # Holders
    \/ Len(scheduled') < Len(scheduled)

\* Something of the semaphore's side can step.
HolderCanStep ==
    \/ permits > 0 /\ ENABLED SemaphoreAcquired(next_waiter(waiters))
    \/ scheduled # <<>>
    \/ \E h \in Holders : MayResume(h)

\* C38: a task takes one permit as it enters the async with block of
\* Track.download, gives one back as it leaves, and between the two, the
\* step from the failed first attempt to the retry included, the semaphore
\* is not touched; the free permits are the limit less the tasks inside.
\* While the run is not cancelled, a waiting task stays waiting only as
\* long as WaitLeft says: every step leaves its WaitLeft or lowers it, every
\* step of the semaphore's side lowers it, and such a step is possible
\* whenever a task waits.
OnePermitNoStarvation ==
    /\ [][\A t \in Tasks :
            /\ t \notin Holders /\ t \in Holders' => permits' = permits - 1
            /\ t \in Holders /\ t \notin Holders' => permits' = permits + 1
            /\ t \in Holders /\ t \in Holders' /\ pc'[t] # pc[t]
                    => permits' = permits /\ waiters' = waiters]_vars
    /\ [](permits = max_connections - Cardinality(Holders) /\ permits >= 0)
    /\ [](Waiting = {t \in Tasks : pc[t] = "sem_wait"})
    /\ [][~cancelled' =>
            \A t \in Waiting \cap Waiting' :
                /\ WaitLeft(t)' <= WaitLeft(t)
                /\ HolderStep => WaitLeft(t)' < WaitLeft(t)]_vars
    /\ [](~cancelled /\ waiters # <<>> => HolderCanStep)

\* Two tasks wait for the only permit while the task that holds it is in
\* its retry, its first attempt having raised.
OnePermitNoStarvationWitness ==
    /\ max_connections = 1
    /\ Len(waiters) = 2
    /\ \E h \in Holders : pc[h] = "transfer2" /\ xfer_raised[h] = 1


-----------------------------------------------------------------------------
(* The counters of a playlist that Playlist.rip drives, checked under      *)
(* SpecWave.                                                               *)

\* C39: every retained collection event has completed_tracks <=
\* found_tracks and completed_tracks + failed_tracks <= total_tracks, and
\* the total_tracks of the playlist of the run is the length of its track
\* list, also when the list names a track twice and when tracks fail at
\* resolution.
CountersWithinTotal ==
    \A b \in Buses : \A p \in DOMAIN playlists[b].map :
        LET playlist == playlists[b].map[p]
        IN  /\ playlist.completed_tracks <= playlist.found_tracks
            /\ playlist.completed_tracks + playlist.failed_tracks <= playlist.total_tracks
            /\ p = "p1" => playlist.total_tracks = NumTracks

\* The run of a list that names t1 twice has ended: a track has completed,
\* one failed at resolution, and the counters stay below total_tracks.
CountersWithinTotalWitness ==
    /\ run_pc = "done"
    /\ item[2].id = item[1].id
    /\ DictHas(playlists[CoreBus], "p1")
    /\ LET playlist == playlists[CoreBus].map["p1"]
       IN  /\ playlist.completed_tracks = 1
           /\ playlist.failed_tracks = 1
           /\ playlist.found_tracks = 1
           /\ playlist.total_tracks = 3
    /\ \E t \in Tasks : result[t] = "unresolved"


-----------------------------------------------------------------------------
(* What the aggregator leaves alone, checked under SpecStatsFrame.         *)

\* The track event of the publish a step made.
PublishedTrack == sent'[CoreBus][1].data

\* No publish of a track event changes which collections are retained,
\* their id or their total_tracks.
AggregatorKeepsIdentity ==
    [][/\ playlists'[CoreBus].order = playlists[CoreBus].order
       /\ \A p \in DOMAIN playlists[CoreBus].map :
            /\ playlists'[CoreBus].map[p].playlist_id = p
            /\ playlists'[CoreBus].map[p].total_tracks
               = playlists[CoreBus].map[p].total_tracks]_vars

\* A collection without a retained track of its id after the event is
\* stored is left as it was and is not published.
AggregatorSkipsEmpty ==
    [][\A p \in DOMAIN playlists[CoreBus].map :
          TracksOf(tracks'[CoreBus], p, AllStatuses) = {}
          => /\ playlists'[CoreBus].map[p] = playlists[CoreBus].map[p]
             /\ UpdatesOf(sent'[CoreBus], p) = {}]_vars

\* A track event whose playlist_id is None or names no retained collection
\* changes no retained collection and hands no collection update to
\* broadcast_event.
UnhomedEventChangesNothing ==
    [][PublishedTrack.playlist_id \notin DOMAIN playlists[CoreBus].map
       => /\ playlists'[CoreBus] = playlists[CoreBus]
          /\ \A i \in 1..Len(sent'[CoreBus]) :
                sent'[CoreBus][i].event_type # "playlist_update"]_vars

\* C40 as claimed: the aggregator never changes the id or total_tracks of a
\* collection, leaves every collection without a retained track untouched,
\* and a track event whose playlist_id is None or names no retained
\* collection changes no retained collection and enqueues no collection
\* update.
AggregatorFrame ==
    /\ AggregatorKeepsIdentity
    /\ AggregatorSkipsEmpty
    /\ UnhomedEventChangesNothing


====
